---- MODULE Spec2Model ----
(***************************************************************************)
(* RestoInsight emotion-detection core (src/model/emotion_detector.py):    *)
(* StaffRecognizer, PersonTracker, SceneDetector, DataStore,               *)
(* AnomalyDetector and the EmotionDetector pipeline that drives them.      *)
(*                                                                         *)
(* Conventions.  A Python object is a record variable with the object's    *)
(* fields.  A dict is a function whose DOMAIN is the dict's key set, and a *)
(* defaultdict gets its key on first access (Touch).  None is the empty    *)
(* sequence <<>> and a present value v is <<v>>, for values that may be    *)
(* None (encodings, histograms, returned alerts).  A confidence is an      *)
(* integer percentage (0.55 is 55).  uuid4() ids and datetime.now() stamps *)
(* come from outside the program: ids are left out and a stamp is the      *)
(* token Now.                                                              *)
(***************************************************************************)
EXTENDS Integers, Sequences, FiniteSets, TLC

VARIABLES
    person_tracker,     \* PersonTracker: persons, guest_counter
    scene_detector,     \* SceneDetector: prev_hist, current_table, table_start, table_frames
    data_store,         \* DataStore: snapshots, tables, alerts, total_guests, table_data, staff_emotions
    anomaly_detector,   \* AnomalyDetector: table_anger, alerted
    current_table,      \* EmotionDetector.current_table
    last_detections,    \* EmotionDetector.last_detections
    frame_count,        \* process_video: frame_count
    pc,                 \* process_video: "idle", "loop" (in the while loop) or "done"
    ret,                \* the last call: [op, args, val, raised]
    finalize_calls,     \* history: the table numbers finalize_table was called with, in order
    accepted,           \* history: how many tuples of the last frame were well formed and passed the filters
    discarded,          \* history: the guests the last reset_guests dropped, as [pid, encoding]
    uploader            \* FirestoreUploader: the tables collection, the open batch, the committed batches, count, pc

vars == <<person_tracker, scene_detector, data_store, anomaly_detector, current_table,
          last_detections, frame_count, pc, ret, finalize_calls, accepted, discarded,
          uploader>>

-----------------------------------------------------------------------------
(* CONFIG *)

PROCESS_EVERY_N_FRAMES == 30
MIN_FACE_SIZE == 40
CONFIDENCE_THRESHOLD == 40
STAFF_MATCH_THRESHOLD == 50
PERSON_TRACKING_THRESHOLD == 45
SCENE_CHANGE_THRESHOLD == 40
ANOMALY_CONFIDENCE == 55

None == <<>>
Now == "now"
NoTime == "None"

Some(v) == <<v>>

\* f"{table_num:02d}"
TwoDigits(n) == IF n < 10 THEN "0" \o ToString(n) ELSE ToString(n)

\* sum(1 for e in emotions if e in S)
CountIn(emotions, S) == Cardinality({i \in 1..Len(emotions) : emotions[i] \in S})

\* the sum of f over the keys S
RECURSIVE SumOver(_, _)
SumOver(f, S) ==
    IF S = {} THEN 0
    ELSE LET k == CHOOSE x \in S : TRUE IN f[k] + SumOver(f, S \ {k})

\* d[k] of a defaultdict: the key is created with the default on first access
Touch(d, k, default) == IF k \in DOMAIN d THEN d ELSE d @@ (k :> default)

-----------------------------------------------------------------------------
(* DataStore *)

EmptyTableData == [guests |-> {}, staff |-> {}, guest_emotions |-> <<>>, staff_emotions |-> <<>>]

DataStoreInit ==
    [snapshots |-> <<>>, tables |-> <<>>, alerts |-> <<>>, total_guests |-> 0,
     table_data |-> <<>>, staff_emotions |-> <<>>]

init_table(ds, table_num) ==
    IF table_num \in DOMAIN ds.tables
    THEN ds
    ELSE [ds EXCEPT !.tables = @ @@ (table_num :>
             [table_number |-> TwoDigits(table_num), start_time |-> Now,
              end_time |-> NoTime, guests |-> None, staff |-> None])]

Snapshot(table_num, person_id, person_type, person_name, emotion, confidence, bbox) ==
    [table_number |-> table_num, person_id |-> person_id, person_type |-> person_type,
     person_name |-> person_name, emotion |-> emotion, confidence |-> confidence,
     bounding_box |-> bbox]

\* the per-table tracking of add_detection, on the touched table_data entry td
\* variant: only the first emotion of a guest is kept
TrackGuestFirstEmotion(td, person_id, emotion) ==
    IF person_id \in td.guests THEN td
    ELSE [td EXCEPT !.guests = @ \cup {person_id}, !.guest_emotions = Append(@, emotion)]

\* variant: only the first emotion of a staff member is kept in the table's history
TrackStaffFirstEmotion(td, person_name, emotion) ==
    IF person_name \in td.staff THEN td
    ELSE [td EXCEPT !.staff = @ \cup {person_name}, !.staff_emotions = Append(@, emotion)]

TrackStaff(td, person_name, emotion) ==
    [td EXCEPT !.staff = @ \cup {person_name}, !.staff_emotions = Append(@, emotion)]

TrackGuest(td, person_id, emotion) ==
    [td EXCEPT !.guests = @ \cup {person_id}, !.guest_emotions = Append(@, emotion)]

\* variant: every guest event counts as a new guest
NewGuestCountEveryEvent(td, person_id) == 1

NewGuestCount(td, person_id) == IF person_id \notin td.guests THEN 1 ELSE 0

add_detection(ds, table_num, person_id, person_type, person_name, emotion, confidence, bbox) ==
    LET ds1 == init_table(ds, table_num)
        tdm == Touch(ds1.table_data, table_num, EmptyTableData)
        td  == tdm[table_num]
    IN  IF person_type = "staff"
        THEN [ds1 EXCEPT
                !.snapshots = Append(@, Snapshot(table_num, person_id, person_type,
                                                 person_name, emotion, confidence, bbox)),
                !.table_data = [tdm EXCEPT ![table_num] = TrackStaff(td, person_name, emotion)],
                !.staff_emotions =
                    LET se == Touch(@, person_name, <<>>)
                    IN  [se EXCEPT ![person_name] =
                            Append(@, [emotion |-> emotion, confidence |-> confidence,
                                       table |-> table_num])]]
        ELSE [ds1 EXCEPT
                !.snapshots = Append(@, Snapshot(table_num, person_id, person_type,
                                                 person_name, emotion, confidence, bbox)),
                !.table_data = [tdm EXCEPT ![table_num] = TrackGuest(td, person_id, emotion)],
                !.total_guests = @ + NewGuestCount(td, person_id)]

Alert(table_num, alert_type, severity, title) ==
    [table_number |-> table_num, alert_type |-> alert_type, severity |-> severity,
     title |-> "Table " \o TwoDigits(table_num) \o ": " \o title, is_resolved |-> FALSE,
     created_at |-> Now]

\* variant: the new alert replaces the list
add_alert_replacing(ds, table_num, alert_type, severity, title) ==
    [ds EXCEPT !.alerts = <<Alert(table_num, alert_type, severity, title)>>]

add_alert(ds, table_num, alert_type, severity, title) ==
    [ds EXCEPT !.alerts = Append(@, Alert(table_num, alert_type, severity, title))]

\* variant: the table's data is read without creating its entry
finalize_table_reading(ds, table_num) ==
    IF table_num \in DOMAIN ds.tables
    THEN LET td == Touch(ds.table_data, table_num, EmptyTableData)[table_num]
         IN  [ds EXCEPT !.tables[table_num] =
                            [@ EXCEPT !.end_time = Now,
                                      !.guests = Some(td.guests),
                                      !.staff = Some(td.staff)]]
    ELSE ds

finalize_table(ds, table_num) ==
    IF table_num \in DOMAIN ds.tables
    THEN LET tdm == Touch(ds.table_data, table_num, EmptyTableData)
         IN  [ds EXCEPT !.table_data = tdm,
                        !.tables[table_num] =
                            [@ EXCEPT !.end_time = Now,
                                      !.guests = Some(tdm[table_num].guests),
                                      !.staff = Some(tdm[table_num].staff)]]
    ELSE ds

-----------------------------------------------------------------------------
(* AnomalyDetector *)

AnomalyDetectorInit == [table_anger |-> <<>>, alerted |-> {}]

NoAnger == [guest |-> 0, staff |-> 0]

DisputeStaffKey(table_num) == <<table_num, "dispute_staff">>
DisputeGuestKey(table_num) == <<table_num, "dispute_guest">>
ServiceKey(table_num) == <<table_num, "service">>

\* variant: anger at exactly the threshold counts
CountsAsAngerFromThreshold(emotion, confidence) ==
    emotion = "angry" /\ confidence >= ANOMALY_CONFIDENCE

\* line 495: the event counts as high-confidence anger
CountsAsAnger(emotion, confidence) == emotion = "angry" /\ confidence > ANOMALY_CONFIDENCE

\* variant: the anger is counted on every table seen so far
UpdateAngerEveryTable(table_anger, table_num, person_type, emotion, confidence) ==
    LET ta == Touch(table_anger, table_num, NoAnger)
    IN  IF CountsAsAnger(emotion, confidence)
        THEN [u \in DOMAIN ta |-> [ta[u] EXCEPT ![person_type] = @ + 1]]
        ELSE ta

\* lines 495-496, and the defaultdict access of line 501
UpdateAnger(table_anger, table_num, person_type, emotion, confidence) ==
    LET ta == Touch(table_anger, table_num, NoAnger)
    IN  IF CountsAsAnger(emotion, confidence)
        THEN [ta EXCEPT ![table_num][person_type] = @ + 1]
        ELSE ta

\* variant: rule 1 without the test of the dedup key
Rule1WithoutDedup(anger, alerted, table_num) ==
    /\ anger.guest >= 1
    /\ anger.staff >= 1

\* Type 1: Staff-Customer Dispute (both angry)
Rule1(anger, alerted, table_num) ==
    /\ anger.guest >= 1
    /\ anger.staff >= 1
    /\ DisputeStaffKey(table_num) \notin alerted

\* variant: rule 2 waits for a third angry guest event
Rule2FromThree(anger, alerted, table_num) ==
    /\ ~Rule1(anger, alerted, table_num)
    /\ anger.guest >= 3
    /\ DisputeGuestKey(table_num) \notin alerted

\* variant: rule 2 is tested on its counter alone
Rule2OnCounterAlone(anger, alerted, table_num) == anger.guest >= 2

\* Type 2: Guest Dispute (multiple angry guests), the elif branch
Rule2(anger, alerted, table_num) ==
    /\ ~Rule1(anger, alerted, table_num)
    /\ anger.guest >= 2
    /\ DisputeGuestKey(table_num) \notin alerted

\* variant: a neutral guest is not counted as dissatisfied
Rule3WithoutNeutral(td, alerted, table_num) ==
    /\ CountIn(td.guest_emotions, {"angry", "sad"}) >= 2
    /\ CountIn(td.staff_emotions, {"angry", "sad"}) >= 1
    /\ ServiceKey(table_num) \notin alerted

\* Type 3: Service Dissatisfaction (guest neutral/angry, staff angry)
Rule3(td, alerted, table_num) ==
    /\ CountIn(td.guest_emotions, {"angry", "sad", "neutral"}) >= 2
    /\ CountIn(td.staff_emotions, {"angry", "sad"}) >= 1
    /\ ServiceKey(table_num) \notin alerted

\* variant: the rule 1 branch does not assign alert
ReturnedAlertWithoutRule1(r1, r2, r3, table_num) ==
    IF r3 THEN Some(Alert(table_num, "service_dissatisfaction", "warning", "Service Issue"))
    ELSE IF r2 THEN Some(Alert(table_num, "dispute_customers", "urgent", "Guest Dispute"))
    ELSE None

\* the value of the local variable alert at the return: each firing rule assigns it
ReturnedAlert(r1, r2, r3, table_num) ==
    IF r3 THEN Some(Alert(table_num, "service_dissatisfaction", "warning", "Service Issue"))
    ELSE IF r1 THEN Some(Alert(table_num, "dispute_staff_customer", "urgent", "Staff-Customer Dispute"))
    ELSE IF r2 THEN Some(Alert(table_num, "dispute_customers", "urgent", "Guest Dispute"))
    ELSE None

\* AnomalyDetector.check: the new detector, the new store and the returned alert
check(ad, ds, table_num, person_type, emotion, confidence) ==
    LET ta  == UpdateAnger(ad.table_anger, table_num, person_type, emotion, confidence)
        r1  == Rule1(ta[table_num], ad.alerted, table_num)
        r2  == Rule2(ta[table_num], ad.alerted, table_num)
        al0 == IF r1 THEN ad.alerted \cup {DisputeStaffKey(table_num)} ELSE ad.alerted
        ds0 == IF r1 THEN add_alert(ds, table_num, "dispute_staff_customer", "urgent",
                                    "Staff-Customer Dispute")
               ELSE ds
        \* r2 is the elif branch: it is taken only when r1 is not
        al1 == IF r2 THEN al0 \cup {DisputeGuestKey(table_num)} ELSE al0
        ds1 == IF r2 THEN add_alert(ds0, table_num, "dispute_customers", "urgent",
                                    "Guest Dispute")
               ELSE ds0
        ds2 == [ds1 EXCEPT !.table_data = Touch(@, table_num, EmptyTableData)]
        r3  == Rule3(ds2.table_data[table_num], al1, table_num)
        al2 == IF r3 THEN al1 \cup {ServiceKey(table_num)} ELSE al1
        ds3 == IF r3 THEN add_alert(ds2, table_num, "service_dissatisfaction", "warning",
                                    "Service Issue")
               ELSE ds2
    IN  [anomaly_detector |-> [table_anger |-> ta, alerted |-> al2],
         data_store |-> ds3,
         alert |-> ReturnedAlert(r1, r2, r3, table_num)]

-----------------------------------------------------------------------------
(* face_recognition and cv2: the external measures, on a one-dimensional scale *)

Abs(n) == IF n < 0 THEN -n ELSE n

\* face_recognition.face_distance([a], b)[0], in hundredths: the embeddings are
\* points of a line, 0.24 apart per unit
face_distance(a, b) == 24 * Abs(a[1] - b[1])

\* cv2.compareHist(a, b, HISTCMP_BHATTACHARYYA), in hundredths, within [0, 100]
compareHist(a, b) == IF 25 * Abs(a[1] - b[1]) > 100 THEN 100 ELSE 25 * Abs(a[1] - b[1])

-----------------------------------------------------------------------------
(* StaffRecognizer *)

\* staff_data after _load_staff, in insertion order: {name: encoding}
staff_data == << [name |-> "Asha", encoding |-> <<0>>], [name |-> "Ben", encoding |-> <<1>>] >>

MinOf(S) == CHOOSE m \in S : \A n \in S : m <= n

\* the entries of the gallery staff below the staff threshold, as positions
StaffHits(staff, face_encoding) ==
    {i \in 1..Len(staff) :
        face_distance(staff[i].encoding, face_encoding) < STAFF_MATCH_THRESHOLD}

\* variant: the closest entry below the threshold
match_closest(staff, face_encoding) ==
    IF Len(staff) = 0 \/ face_encoding = None
    THEN None
    ELSE IF StaffHits(staff, face_encoding) = {} THEN None
         ELSE LET hits == StaffHits(staff, face_encoding)
                  best == CHOOSE i \in hits : \A j \in hits :
                             face_distance(staff[i].encoding, face_encoding)
                                <= face_distance(staff[j].encoding, face_encoding)
              IN  Some(staff[best].name)

\* StaffRecognizer.match of a recognizer whose staff_data is staff
match_of(staff, face_encoding) ==
    IF Len(staff) = 0 \/ face_encoding = None
    THEN None
    ELSE IF StaffHits(staff, face_encoding) = {} THEN None
         ELSE Some(staff[MinOf(StaffHits(staff, face_encoding))].name)

\* the session's recognizer
match(face_encoding) == match_of(staff_data, face_encoding)

-----------------------------------------------------------------------------
(* PersonTracker: persons is the dict in insertion order, one entry per id *)

PersonTrackerInit == [persons |-> <<>>, guest_counter |-> 0]

StaffId(staff_name) == "staff_" \o staff_name
GuestId(n) == "guest_" \o ToString(n)
GuestName(n) == "Guest " \o ToString(n)

PersonIds(persons) == {persons[i].pid : i \in 1..Len(persons)}

\* variant: a guest stored without an encoding is taken for a match
GuestHitsMatchingNull(persons, encoding) ==
    {i \in 1..Len(persons) :
        /\ persons[i].type = "guest"
        /\ \/ persons[i].encoding = None
           \/ face_distance(persons[i].encoding, encoding) < PERSON_TRACKING_THRESHOLD}

\* the tracked guests a new encoding is close enough to, as positions in persons
GuestHits(persons, encoding) ==
    {i \in 1..Len(persons) :
        /\ persons[i].type = "guest"
        /\ persons[i].encoding # None
        /\ face_distance(persons[i].encoding, encoding) < PERSON_TRACKING_THRESHOLD}

\* variant: the new guest gets the next suffix but the counter is not advanced
NewGuestWithoutCounting(pt, encoding) ==
    LET n == pt.guest_counter + 1
    IN  [person_tracker |->
            [persons |-> Append(pt.persons, [pid |-> GuestId(n), type |-> "guest",
                                             name |-> GuestName(n), encoding |-> encoding]),
             guest_counter |-> pt.guest_counter],
         val |-> <<GuestId(n), "guest", GuestName(n)>>]

\* lines 183-191
NewGuest(pt, encoding) ==
    LET n == pt.guest_counter + 1
    IN  [person_tracker |->
            [persons |-> Append(pt.persons, [pid |-> GuestId(n), type |-> "guest",
                                             name |-> GuestName(n), encoding |-> encoding]),
             guest_counter |-> n],
         val |-> <<GuestId(n), "guest", GuestName(n)>>]

\* variant: the stored encoding becomes the mean of the old and the new one
MatchGuestAveraging(pt, encoding) ==
    LET i == MinOf(GuestHits(pt.persons, encoding))
    IN  [person_tracker |->
            [pt EXCEPT !.persons[i].encoding = <<(@[1] + encoding[1]) \div 2>>],
         val |-> <<pt.persons[i].pid, "guest", pt.persons[i].name>>]

\* lines 169-180
MatchGuest(pt, encoding) ==
    LET i == MinOf(GuestHits(pt.persons, encoding))
    IN  [person_tracker |-> [pt EXCEPT !.persons[i].encoding = encoding],
         val |-> <<pt.persons[i].pid, "guest", pt.persons[i].name>>]

get_or_create(pt, encoding, is_staff, staff_name) ==
    IF is_staff /\ staff_name # ""
    THEN [person_tracker |->
            IF StaffId(staff_name) \notin PersonIds(pt.persons)
            THEN [pt EXCEPT !.persons = Append(@, [pid |-> StaffId(staff_name), type |-> "staff",
                                                   name |-> staff_name, encoding |-> encoding])]
            ELSE pt,
          val |-> <<StaffId(staff_name), "staff", staff_name>>]
    ELSE IF encoding # None /\ GuestHits(pt.persons, encoding) # {}
         THEN MatchGuest(pt, encoding)
         ELSE NewGuest(pt, encoding)

IsStaffEntry(p) == p.type = "staff"

\* variant: the counter restarts but the guests stay tracked
reset_guests_keeping(pt) == [persons |-> pt.persons, guest_counter |-> 0]

\* variant: the staff are dropped with the guests
reset_guests_dropping_all(pt) == [persons |-> <<>>, guest_counter |-> 0]

\* the entries reset_guests drops
DroppedGuests(pt) ==
    {[pid |-> pt.persons[i].pid, encoding |-> pt.persons[i].encoding] :
        i \in {j \in 1..Len(pt.persons) : pt.persons[j].type = "guest"}}

reset_guests(pt) == [persons |-> SelectSeq(pt.persons, IsStaffEntry), guest_counter |-> 0]

-----------------------------------------------------------------------------
(* SceneDetector *)

SceneDetectorInit == [prev_hist |-> None, current_table |-> 1, table_start |-> 0,
                      table_frames |-> <<>>]

\* variant: with no previous histogram the frame is compared with a blank one
SceneChangedFromBlank(sd, hist) ==
    compareHist(IF sd.prev_hist = None THEN <<0>> ELSE sd.prev_hist, hist)
        > SCENE_CHANGE_THRESHOLD

\* lines 224-226
SceneChanged(sd, hist) ==
    /\ sd.prev_hist # None
    /\ compareHist(sd.prev_hist, hist) > SCENE_CHANGE_THRESHOLD

\* variant: the table number also advances when the scene has not changed
scene_check_always_advancing(sd, hist, frame_num) ==
    [scene_detector |->
        [prev_hist |-> hist, current_table |-> sd.current_table + 1,
         table_start |-> frame_num,
         table_frames |-> [t \in DOMAIN sd.table_frames \cup {sd.current_table} |->
                             IF t = sd.current_table THEN frame_num - sd.table_start
                             ELSE sd.table_frames[t]]],
     changed |-> SceneChanged(sd, hist), table_num |-> sd.current_table + 1]

\* SceneDetector.check: the new detector and the returned (changed, table_num)
scene_check(sd, hist, frame_num) ==
    IF SceneChanged(sd, hist)
    THEN [scene_detector |->
            [prev_hist |-> hist, current_table |-> sd.current_table + 1,
             table_start |-> frame_num,
             table_frames |-> [t \in DOMAIN sd.table_frames \cup {sd.current_table} |->
                                 IF t = sd.current_table THEN frame_num - sd.table_start
                                 ELSE sd.table_frames[t]]],
          changed |-> TRUE, table_num |-> sd.current_table + 1]
    ELSE [scene_detector |-> [sd EXCEPT !.prev_hist = hist],
          changed |-> FALSE, table_num |-> sd.current_table]

-----------------------------------------------------------------------------
(* EmotionDetector.process_frame *)

\* one entry of DeepFace.analyze's result list, with the encoding
\* _get_face_encoding finds for its region: kind "ok", "no_region" (no 'region'
\* key) or "no_emotion" (no 'emotion' key: result['emotion'] raises KeyError)
Face(kind, w, h, emotion, confidence, encoding) ==
    [kind |-> kind, w |-> w, h |-> h, emotion |-> emotion, confidence |-> confidence,
     encoding |-> encoding]

BBox(r) == [x |-> 0, y |-> 0, w |-> r.w, h |-> r.h]

\* lines 620-635: the entry is skipped by a continue
Skipped(r) ==
    \/ r.kind = "no_region"
    \/ r.w < MIN_FACE_SIZE \/ r.h < MIN_FACE_SIZE
    \/ (r.kind = "ok" /\ r.confidence < CONFIDENCE_THRESHOLD)

\* line 630: the entry raises inside the try block
Raises(r) == ~(r.kind = "no_region") /\ ~(r.w < MIN_FACE_SIZE \/ r.h < MIN_FACE_SIZE)
             /\ r.kind = "no_emotion"

\* lines 637-674: one accepted entry, on st = [person_tracker, data_store,
\* anomaly_detector, detections, raised]
HandleFace(st, r, table) ==
    LET staff == IF r.encoding # None THEN match(r.encoding) ELSE None
        is_staff == staff # None
        got == get_or_create(st.person_tracker, r.encoding, is_staff,
                             IF is_staff THEN staff[1] ELSE "")
        ds1 == add_detection(st.data_store, table, got.val[1], got.val[2], got.val[3],
                             r.emotion, r.confidence, BBox(r))
        chk == check(st.anomaly_detector, ds1, table, got.val[2], r.emotion, r.confidence)
    IN  [person_tracker |-> got.person_tracker,
         data_store |-> chk.data_store,
         anomaly_detector |-> chk.anomaly_detector,
         detections |-> Append(st.detections,
                               [person_id |-> got.val[1], person_type |-> got.val[2],
                                person_name |-> got.val[3], emotion |-> r.emotion,
                                confidence |-> r.confidence, bbox |-> <<0, 0, r.w, r.h>>]),
         raised |-> FALSE]

\* the for loop of lines 619-674 inside the try of line 607: an exception leaves it
RECURSIVE ForResults(_, _, _, _)
ForResults(st, results, i, table) ==
    IF i > Len(results) THEN st
    ELSE IF Skipped(results[i]) THEN ForResults(st, results, i + 1, table)
    ELSE IF Raises(results[i]) THEN [st EXCEPT !.raised = TRUE]
    ELSE ForResults(HandleFace(st, results[i], table), results, i + 1, table)

\* variant: the detector keeps its table number when the scene changes
TableChangeKeepingCurrent(pt, ds, cur, sc) ==
    IF sc.changed
    THEN [person_tracker |-> reset_guests(pt),
          data_store |-> init_table(finalize_table(ds, cur), sc.table_num),
          current_table |-> cur,
          finalized |-> <<cur>>, dropped |-> DroppedGuests(pt)]
    ELSE [person_tracker |-> pt, data_store |-> ds, current_table |-> cur, finalized |-> <<>>,
          dropped |-> {}]

\* variant: current_table is updated before the finalize_table call
TableChangeFinalizingNew(pt, ds, cur, sc) ==
    IF sc.changed
    THEN [person_tracker |-> reset_guests(pt),
          data_store |-> init_table(finalize_table(ds, sc.table_num), sc.table_num),
          current_table |-> sc.table_num,
          finalized |-> <<sc.table_num>>, dropped |-> DroppedGuests(pt)]
    ELSE [person_tracker |-> pt, data_store |-> ds, current_table |-> cur, finalized |-> <<>>,
          dropped |-> {}]

\* lines 596-603: the scene check and the table change
TableChange(pt, ds, cur, sc) ==
    IF sc.changed
    THEN [person_tracker |-> reset_guests(pt),
          data_store |-> init_table(finalize_table(ds, cur), sc.table_num),
          current_table |-> sc.table_num,
          finalized |-> <<cur>>, dropped |-> DroppedGuests(pt)]
    ELSE [person_tracker |-> pt, data_store |-> ds, current_table |-> cur, finalized |-> <<>>,
          dropped |-> {}]

\* variant: the frame's detections are recorded for the table before the change
process_frame_on_old_table(pt, sd, ds, ad, cur, frame, frame_num) ==
    LET sc == scene_check(sd, frame.hist, frame_num)
        tc == TableChange(pt, ds, cur, sc)
        st == ForResults([person_tracker |-> tc.person_tracker, data_store |-> tc.data_store,
                          anomaly_detector |-> ad, detections |-> <<>>, raised |-> FALSE],
                         frame.results, 1, cur)
    IN  [person_tracker |-> st.person_tracker, scene_detector |-> sc.scene_detector,
         data_store |-> st.data_store, anomaly_detector |-> st.anomaly_detector,
         current_table |-> tc.current_table, last_detections |-> st.detections,
         raised |-> st.raised, finalized |-> tc.finalized, dropped |-> tc.dropped]

\* process_frame(frame, frame_num), frame = [hist, results]
process_frame(pt, sd, ds, ad, cur, frame, frame_num) ==
    LET sc == scene_check(sd, frame.hist, frame_num)
        tc == TableChange(pt, ds, cur, sc)
        st == ForResults([person_tracker |-> tc.person_tracker, data_store |-> tc.data_store,
                          anomaly_detector |-> ad, detections |-> <<>>, raised |-> FALSE],
                         frame.results, 1, tc.current_table)
    IN  [person_tracker |-> st.person_tracker, scene_detector |-> sc.scene_detector,
         data_store |-> st.data_store, anomaly_detector |-> st.anomaly_detector,
         current_table |-> tc.current_table, last_detections |-> st.detections,
         raised |-> st.raised, finalized |-> tc.finalized, dropped |-> tc.dropped]

\* the entries of a frame that are well formed and pass the size and confidence filters
AcceptedCount(results) ==
    Cardinality({i \in 1..Len(results) : results[i].kind = "ok" /\ ~Skipped(results[i])})

-----------------------------------------------------------------------------
(* Python floats: IEEE 754 binary64, round to nearest, ties to even.  A float x >= 0 *)
(* is the integer x * 2^64, written as six digits in base 2^15, least significant   *)
(* first; every float the reports compute is below 2^26 and, unless it is zero, at  *)
(* least 2^-11, so it is such an integer and the digits hold it exactly.            *)

LimbBase == 32768
Precision == 53

FloatZero == <<0, 0, 0, 0, 0, 0>>

\* float(k) of an int 0 <= k < 2^26
FromInt(k) == <<0, 0, 0, 0, (16 * k) % LimbBase, (16 * k) \div LimbBase>>

\* the digits of a digit sequence whose entries may have left 0..LimbBase-1
RECURSIVE Carried(_, _, _)
Carried(d, i, c) ==
    IF i > Len(d) THEN <<>>
    ELSE <<(d[i] + c) % LimbBase>> \o Carried(d, i + 1, (d[i] + c) \div LimbBase)

\* the number of binary digits of a digit, and of a digit sequence
BitsOf(v) == CHOOSE k \in 0..15 : v < 2^k /\ (k = 0 \/ v >= 2^(k - 1))

BitLen(a) ==
    IF \A i \in 1..Len(a) : a[i] = 0 THEN 0
    ELSE LET top == CHOOSE i \in 1..Len(a) : a[i] # 0 /\ \A j \in (i + 1)..Len(a) : a[j] = 0
         IN  15 * (top - 1) + BitsOf(a[top])

\* binary digit p of a (digit 0 is the last one), and whether a digit below p is set
BitAt(a, p) == (a[(p \div 15) + 1] \div 2^(p % 15)) % 2

BitsBelow(a, p) ==
    \E i \in 1..Len(a) : \/ i <= p \div 15 /\ a[i] # 0
                         \/ i = (p \div 15) + 1 /\ a[i] % 2^(p % 15) # 0

\* the float nearest to the exact value a (plus a positive amount below its last digit
\* when sticky): the first Precision binary digits are kept, ties go to the even float
RoundToFloat(a, sticky) ==
    LET d == BitLen(a) - Precision
    IN  IF d <= 0 THEN a
        ELSE LET up == /\ BitAt(a, d - 1) = 1
                       /\ (BitsBelow(a, d - 1) \/ sticky \/ BitAt(a, d) = 1)
                 cut == (d \div 15) + 1
             IN  Carried([i \in 1..Len(a) |->
                            IF i < cut THEN 0
                            ELSE IF i = cut
                                 THEN a[i] - (a[i] % 2^(d % 15)) + (IF up THEN 2^(d % 15) ELSE 0)
                                 ELSE a[i]], 1, 0)

\* the float nearest to an exact value whose digits are still to be carried
Rounded(digits, sticky) ==
    CHOOSE x \in {RoundToFloat(a, sticky) : a \in {Carried(digits, 1, 0)}} : TRUE

\* a + b
FloatAdd(a, b) == Rounded([i \in 1..Len(a) |-> a[i] + b[i]], FALSE)

\* a - b, for a >= b
FloatSub(a, b) == Rounded([i \in 1..Len(a) |-> a[i] - b[i]], FALSE)

\* a * k, for an int k
FloatMul(a, k) == Rounded([i \in 1..Len(a) |-> a[i] * k], FALSE)

\* the digits of a divided by the int n, from the most significant digit down, and the
\* remainder
RECURSIVE DivLimbs(_, _, _, _)
DivLimbs(a, i, n, r) ==
    IF i = 0 THEN [q |-> <<>>, r |-> r]
    ELSE LET cur == r * LimbBase + a[i]
             lower == DivLimbs(a, i - 1, n, cur % n)
         IN  [q |-> Append(lower.q, cur \div n), r |-> lower.r]

\* a / n, for an int n >= 1
FloatDiv(a, n) ==
    CHOOSE x \in {Rounded(qr.q, qr.r # 0) : qr \in {DivLimbs(a, Len(a), n, 0)}} : TRUE

\* a < b
FloatLess(a, b) ==
    \E i \in 1..Len(a) : a[i] < b[i] /\ \A j \in (i + 1)..Len(a) : a[j] = b[j]

\* int(a)
FloatInt(a) == a[5] \div 16 + a[6] * 2048

\* the float literal k/100, e.g. 0.65
Hundredths(k) == FloatDiv(FromInt(k), 100)
-----------------------------------------------------------------------------
(* DataStore._calc_sentiment *)

\* CONFIG['EMOTION_WEIGHTS']
EMOTION_WEIGHTS ==
    [happy |-> FromInt(1), surprise |-> Hundredths(65), neutral |-> Hundredths(50),
     sad |-> Hundredths(20), fear |-> Hundredths(15), disgust |-> Hundredths(10),
     angry |-> FloatZero]

\* weights.get(e, 0.5)
weights_get(e) == IF e \in DOMAIN EMOTION_WEIGHTS THEN EMOTION_WEIGHTS[e] ELSE Hundredths(50)

\* sum(weights.get(e, 0.5) for e in emotions): the floats are added from left to right
RECURSIVE WeightSumTo(_, _)
WeightSumTo(emotions, n) ==
    IF n = 0 THEN FloatZero
    ELSE CHOOSE total \in {FloatAdd(partial, weights_get(emotions[n])) :
                              partial \in {WeightSumTo(emotions, n - 1)}} : TRUE

WeightSum(emotions) == WeightSumTo(emotions, Len(emotions))

\* counts after the loop of lines 332-333
Counts(emotions) ==
    [e \in {emotions[i] : i \in 1..Len(emotions)} |->
        Cardinality({i \in 1..Len(emotions) : emotions[i] = e})]

\* the keys of counts in insertion order: the labels by first occurrence
CountKeys(emotions) ==
    LET firsts == {i \in 1..Len(emotions) : \A j \in 1..(i - 1) : emotions[j] # emotions[i]}
    IN  [k \in 1..Cardinality(firsts) |->
            emotions[CHOOSE i \in firsts : Cardinality({j \in firsts : j <= i}) = k]]

\* variant: of the keys with the maximal count, the last one
DominantLastKey(emotions) ==
    LET keys == CountKeys(emotions)
        counts == Counts(emotions)
        best == {k \in 1..Len(keys) : \A j \in 1..Len(keys) : counts[keys[j]] <= counts[keys[k]]}
    IN  keys[CHOOSE k \in best : \A j \in best : j <= k]

\* max(counts, key=counts.get): the first key, in insertion order, with the maximal count
Dominant(emotions) ==
    LET keys == CountKeys(emotions)
        counts == Counts(emotions)
    IN  keys[MinOf({k \in 1..Len(keys) :
                      \A j \in 1..Len(keys) : counts[keys[j]] <= counts[keys[k]]})]

\* int(sum(...) / len(emotions) * 100)
AvgHappiness(emotions) ==
    FloatInt(FloatMul(FloatDiv(WeightSum(emotions), Len(emotions)), 100))

\* lines 339-346
Trend(emotions) ==
    IF Len(emotions) >= 4
    THEN LET mid == Len(emotions) \div 2
             first == FloatDiv(WeightSum(SubSeq(emotions, 1, mid)), mid)
             second == FloatDiv(WeightSum(SubSeq(emotions, mid + 1, Len(emotions))),
                                Len(emotions) - mid)
         IN  IF FloatLess(first, second)
             THEN (IF FloatLess(Hundredths(12), FloatSub(second, first))
                   THEN "improving" ELSE "stable")
             ELSE (IF FloatLess(Hundredths(12), FloatSub(first, second))
                   THEN "deteriorating" ELSE "stable")
    ELSE "stable"

\* variant: an empty history reads as the neutral weight
EmptySentimentHalf == [avg_happiness |-> 50, dominant |-> "neutral", trend |-> "stable"]

\* line 328
EmptySentiment == [avg_happiness |-> 0, dominant |-> "neutral", trend |-> "stable"]

_calc_sentiment(emotions) ==
    IF emotions = <<>>
    THEN EmptySentiment
    ELSE [avg_happiness |-> AvgHappiness(emotions), dominant |-> Dominant(emotions),
          trend |-> Trend(emotions), counts |-> Counts(emotions)]

-----------------------------------------------------------------------------
(* DataStore.calc_staff_performance, calc_metrics and export *)

\* round(a, 1), in tenths: the nearest multiple of 0.1 to the exact value of a, ties
\* to the even one
RoundTenths(a) ==
    LET x == Carried([i \in 1..Len(a) |-> a[i] * 10], 1, 0)
        whole == FloatInt(x)
        frac == <<x[1], x[2], x[3], x[4], x[5] % 16, 0>>
        half == <<0, 0, 0, 0, 8, 0>>
    IN  IF FloatLess(half, frac) \/ (frac = half /\ whole % 2 = 1) THEN whole + 1 ELSE whole

IsStaffSnapshot(s) == s.person_type = "staff"

\* the keys of staff_emotions in insertion order: a key is inserted by the first staff
\* detection of its name (line 291), which is also appended to the ledger (line 284)
StaffKeys(ds) ==
    LET staff == SelectSeq(ds.snapshots, IsStaffSnapshot)
    IN  CountKeys([i \in 1..Len(staff) |-> staff[i].person_name])

\* sum(weights.get(e['emotion'], 0.5) * 100 for e in emotions), on the emotion labels
RECURSIVE ScoreSumTo(_, _)
ScoreSumTo(labels, n) ==
    IF n = 0 THEN FloatZero
    ELSE CHOOSE total \in {FloatAdd(partial, FloatMul(weights_get(labels[n]), 100)) :
                              partial \in {ScoreSumTo(labels, n - 1)}} : TRUE

ScoreSum(labels) == ScoreSumTo(labels, Len(labels))

\* variant: as many positive staff emotions as negative guest emotions resolve a table
ResolvedTableOnEqual(table_data, emotions, tnum) ==
    LET td == Touch(table_data, tnum, EmptyTableData)[tnum]
        guest_neg == CountIn(td.guest_emotions, {"angry", "sad", "disgust"})
        staff_pos == Cardinality({i \in 1..Len(emotions) :
                                    /\ emotions[i].table = tnum
                                    /\ emotions[i].emotion \in {"happy", "neutral"}})
    IN  guest_neg > 0 /\ staff_pos >= guest_neg

\* lines 371-380, for one staff member's history and one table served
ResolvedTable(table_data, emotions, tnum) ==
    LET td == Touch(table_data, tnum, EmptyTableData)[tnum]
        guest_neg == CountIn(td.guest_emotions, {"angry", "sad", "disgust"})
        staff_pos == Cardinality({i \in 1..Len(emotions) :
                                    /\ emotions[i].table = tnum
                                    /\ emotions[i].emotion \in {"happy", "neutral"}})
    IN  guest_neg > 0 /\ staff_pos > guest_neg

\* variant: the bonus is added without a ceiling
UncappedScore(score) == score

\* min(100, score), line 384
CapScore(score) == IF FloatLess(score, FromInt(100)) THEN score ELSE FromInt(100)

\* lines 360-412: the record of one staff member, the score in tenths, before ranking;
\* raised and capped hold the one value of the local variable score (lines 383, 384)
StaffRecord(ds, name) ==
    LET emotions == ds.staff_emotions[name]
        labels == [i \in 1..Len(emotions) |-> emotions[i].emotion]
        tables_served == {emotions[i].table : i \in 1..Len(emotions)}
        resolved_count ==
            Cardinality({t \in tables_served : ResolvedTable(ds.table_data, emotions, t)})
        raised == {FloatAdd(FloatDiv(ScoreSum(labels), Len(emotions)), FromInt(bonus * 5)) :
                      bonus \in {resolved_count}}
        capped == {CapScore(r) : r \in raised}
    IN  CHOOSE record \in
            {[name |-> name,
              score |-> RoundTenths(score),
              badge |-> IF ~FloatLess(score, FromInt(75)) THEN "High Empathy"
                        ELSE IF ~FloatLess(score, FromInt(55)) THEN "Consistent"
                        ELSE "Needs Support",
              category |-> IF ~FloatLess(score, FromInt(75)) THEN "top_performer"
                           ELSE IF ~FloatLess(score, FromInt(55)) THEN "most_praised"
                           ELSE "needs_support",
              dominant_emotion |-> Dominant(labels),
              tables_served |-> Cardinality(tables_served),
              resolved_negative_trends |-> resolved_count,
              detection_count |-> Len(emotions)] : score \in capped} : TRUE

\* variant: of the entries with equal score, the later one comes first
RankOfReversingTies(performance, k) ==
    1 + Cardinality({j \in 1..Len(performance) : performance[j].score > performance[k].score})
      + Cardinality({j \in (k + 1)..Len(performance) :
                       performance[j].score = performance[k].score})

\* the position of entry k after the stable sort by score, highest first (line 415)
RankOf(performance, k) ==
    1 + Cardinality({j \in 1..Len(performance) : performance[j].score > performance[k].score})
      + Cardinality({j \in 1..(k - 1) : performance[j].score = performance[k].score})

\* variant: the staff history is consumed by the scoring
AfterScoringConsuming(ds, served) ==
    [ds EXCEPT !.staff_emotions = [name \in DOMAIN ds.staff_emotions |-> <<>>]]

\* the store after the defaultdict accesses self.table_data[tnum] of line 371, tnum
\* ranging over the tables served
AfterScoring(ds, served) ==
    [ds EXCEPT !.table_data =
        [t \in DOMAIN ds.table_data \cup served |->
            IF t \in DOMAIN ds.table_data THEN ds.table_data[t] ELSE EmptyTableData]]

\* the store after the call and the ranked list
calc_staff_performance(ds) ==
    LET keys == StaffKeys(ds)
        named == {k \in 1..Len(keys) : ds.staff_emotions[keys[k]] # <<>>}
        unranked == {[n \in 1..Cardinality(named) |->
                          StaffRecord(ds, keys[CHOOSE k \in named :
                                                 Cardinality({j \in named : j <= k}) = n])]}
        served == UNION {{ds.staff_emotions[keys[k]][i].table :
                             i \in 1..Len(ds.staff_emotions[keys[k]])} : k \in named}
    IN  [data_store |-> AfterScoring(ds, served),
         val |-> CHOOSE ranked \in
                    {[r \in 1..Len(performance) |->
                        performance[CHOOSE k \in 1..Len(performance) :
                                       RankOf(performance, k) = r] @@ [rank |-> r]] :
                     performance \in unranked} : TRUE]

\* int(count / total * 100)
Percent(count, total) == FloatInt(FloatMul(FloatDiv(FromInt(count), total), 100))

\* how many guest emotions of all tables are in the set S
GuestEmotionCount(ds, S) ==
    SumOver([t \in DOMAIN ds.table_data |-> CountIn(ds.table_data[t].guest_emotions, S)],
            DOMAIN ds.table_data)

calc_metrics(ds) ==
    LET total == SumOver([t \in DOMAIN ds.table_data |->
                             Len(ds.table_data[t].guest_emotions)], DOMAIN ds.table_data)
    IN  IF total = 0
        THEN [total_walkins |-> 0, happy_pct |-> 0, neutral_pct |-> 0, confused_pct |-> 0,
              angry_pct |-> 0, service_score |-> 0]
        ELSE [total_walkins |-> ds.total_guests,
              happy_pct |-> Percent(GuestEmotionCount(ds, {"happy"}), total),
              neutral_pct |-> Percent(GuestEmotionCount(ds, {"neutral"}), total),
              confused_pct |-> Percent(GuestEmotionCount(ds, {"fear", "surprise"}), total),
              angry_pct |-> Percent(GuestEmotionCount(ds, {"angry", "sad", "disgust"}), total),
              service_score |-> Percent(GuestEmotionCount(ds, {"happy", "surprise"}), total)]

\* lines 455-462
TableSentiments(ds) ==
    [tnum \in DOMAIN ds.table_data |->
        [guest_sentiment |-> _calc_sentiment(ds.table_data[tnum].guest_emotions),
         staff_sentiment |-> _calc_sentiment(ds.table_data[tnum].staff_emotions),
         guest_count |-> Cardinality(ds.table_data[tnum].guests),
         staff_list |-> ds.table_data[tnum].staff]]

\* variant: the exported events are handed over and the ledger starts again
export_flushing(ds) ==
    CHOOSE out \in
        {[data_store |-> [staff_performance.data_store EXCEPT !.snapshots = <<>>],
          val |-> [emotion_snapshots |-> ds.snapshots,
                   tables |-> {ds.tables[t] : t \in DOMAIN ds.tables},
                   table_sentiments |-> TableSentiments(ds),
                   alerts |-> ds.alerts,
                   staff_performance |-> staff_performance.val,
                   realtime_metrics |-> calc_metrics(staff_performance.data_store),
                   summary |-> [total_snapshots |-> Len(ds.snapshots),
                                total_tables |-> Cardinality(DOMAIN ds.tables),
                                total_guests |-> ds.total_guests,
                                total_alerts |-> Len(ds.alerts),
                                staff_detected |-> StaffKeys(ds)]]] :
         staff_performance \in {calc_staff_performance(ds)}} : TRUE

\* DataStore.export: the store after the call and the returned document; the lists made
\* of a dict's values or of a set (tables, staff_list) are given as sets; the local
\* staff_performance is the one result of the call of line 469
export(ds) ==
    CHOOSE out \in
        {[data_store |-> staff_performance.data_store,
          val |-> [emotion_snapshots |-> ds.snapshots,
                   tables |-> {ds.tables[t] : t \in DOMAIN ds.tables},
                   table_sentiments |-> TableSentiments(ds),
                   alerts |-> ds.alerts,
                   staff_performance |-> staff_performance.val,
                   realtime_metrics |-> calc_metrics(staff_performance.data_store),
                   summary |-> [total_snapshots |-> Len(ds.snapshots),
                                total_tables |-> Cardinality(DOMAIN ds.tables),
                                total_guests |-> ds.total_guests,
                                total_alerts |-> Len(ds.alerts),
                                staff_detected |-> StaffKeys(ds)]]] :
         staff_performance \in {calc_staff_performance(ds)}} : TRUE

-----------------------------------------------------------------------------
(* FirestoreUploader (src/model/firestore_uploader.py).  Firestore is what is   *)
(* written to it: tables maps a document id of the tables collection, which     *)
(* starts empty, to the data set on it; a batch is the sequence of its writes   *)
(* not yet committed, and committed lists the batches committed, in order.  A   *)
(* key of a dict of the uploaded document is the pair of its Python type and    *)
(* its text, so that the int 1 and the str "1" are different keys.  The         *)
(* uploader is built without a Gemini key: self.gemini is None.                 *)

\* the Firestore batch limit written in lines 252 and 257
BatchLimit == 500

UploaderInit == [tables |-> [d \in {} |-> <<>>], batch |-> <<>>, committed |-> <<>>,
                 count |-> 0, pc |-> "idle"]

PyInt(n) == <<"int", ToString(n)>>
PyStr(text) == <<"str", text>>

\* the document as export returns it: table_sentiments is keyed by the int table number
InMemory(doc) ==
    [doc EXCEPT !.table_sentiments =
        [k \in {PyInt(t) : t \in DOMAIN doc.table_sentiments} |->
            doc.table_sentiments[CHOOSE t \in DOMAIN doc.table_sentiments : PyInt(t) = k]]]

\* json.load of json.dump (emotion_detector.py lines 826-828, firestore_uploader.py
\* lines 464-465): the keys of a JSON object are strings, an int key n is written as
\* str(n); the values of the document are JSON values and come back equal
JsonLoaded(doc) ==
    [doc EXCEPT !.table_sentiments =
        [k \in {PyStr(ToString(t)) : t \in DOMAIN doc.table_sentiments} |->
            doc.table_sentiments[CHOOSE t \in DOMAIN doc.table_sentiments :
                                    PyStr(ToString(t)) = k]]]

\* the characters of a table_number text f"{n:02d}", as decimal digits
DigitsOf(text) ==
    LET n == CHOOSE n \in 0..99 : TwoDigits(n) = text
    IN  <<n \div 10, n % 10>>

\* str.lstrip('0')
RECURSIVE lstrip0(_)
lstrip0(digits) ==
    IF digits # <<>> /\ Head(digits) = 0 THEN lstrip0(Tail(digits)) ELSE digits

\* int() of a non-empty digit string
RECURSIVE IntOf(_)
IntOf(digits) ==
    IF digits = <<>> THEN 0
    ELSE 10 * IntOf(SubSeq(digits, 1, Len(digits) - 1)) + digits[Len(digits)]

\* line 383: int(str(table.get('table_number', '01')).lstrip('0') or 1)
TableNumOf(table) ==
    LET stripped == lstrip0(DigitsOf(table.table_number))
    IN  IF stripped = <<>> THEN 1 ELSE IntOf(stripped)

\* line 386: the key table_num is looked up with
SentimentKey(table_num) == PyInt(table_num)

\* lines 386-390: the table dict after the merge of its sentiment entry
Merged(table, table_sentiments) ==
    LET key == SentimentKey(TableNumOf(table))
    IN  IF key \in DOMAIN table_sentiments
        THEN [f \in DOMAIN table \cup {"guest_sentiment", "staff_sentiment", "staff"} |->
                 IF f = "guest_sentiment" THEN table_sentiments[key].guest_sentiment
                 ELSE IF f = "staff_sentiment" THEN table_sentiments[key].staff_sentiment
                 ELSE IF f = "staff" THEN Some(table_sentiments[key].staff_list)
                 ELSE table[f]]
        ELSE table

\* the defaults of upload_table, lines 145-155
DefaultGuestSentiment ==
    [avg_happiness |-> 50, dominant_emotion |-> "neutral", trend |-> "stable",
     emotion_breakdown |-> <<>>]

DefaultStaffSentiment ==
    [avg_happiness |-> 50, dominant_emotion |-> "neutral", trend |-> "stable"]

\* table_data.get('guests', []) and table_data.get('staff', []), as sets
ListOr(value) == IF value = None THEN {} ELSE value[1]

\* _determine_table_status
TableStatus(table) ==
    IF table.end_time # NoTime THEN "Free"
    ELSE IF ListOr(table.guests) = {} THEN "Free"
    ELSE "Engaged"

\* upload_table: the document id and the data set on it
TableDocId(table) == "table_" \o table.table_number

TableDoc(table) ==
    [table_number |-> table.table_number,
     status |-> TableStatus(table),
     guests |-> ListOr(table.guests),
     staff |-> ListOr(table.staff),
     guest_count |-> Cardinality(ListOr(table.guests)),
     guest_sentiment |-> IF "guest_sentiment" \in DOMAIN table THEN table.guest_sentiment
                         ELSE DefaultGuestSentiment,
     staff_sentiment |-> IF "staff_sentiment" \in DOMAIN table THEN table.staff_sentiment
                         ELSE DefaultStaffSentiment]

\* variant: the last batch is committed whatever it holds
FinalCommitAlways(count) == TRUE

\* line 257: the batch still open after the loop holds writes
FinalCommitNeeded(count) == count % BatchLimit # 0

\* lines 234-255: one iteration of the loop of upload_snapshots_batch
BatchStep(up, write) ==
    LET batch == Append(up.batch, write)
        count == up.count + 1
    IN  IF count % BatchLimit = 0
        THEN [up EXCEPT !.count = count, !.committed = Append(@, batch), !.batch = <<>>]
        ELSE [up EXCEPT !.count = count, !.batch = batch]

\* lines 257-261: after the loop; the returned count is the uploader's count
BatchEnd(up) ==
    IF FinalCommitNeeded(up.count)
    THEN [up EXCEPT !.committed = Append(@, up.batch), !.batch = <<>>]
    ELSE up

RECURSIVE BatchLoop(_, _, _)
BatchLoop(up, snapshots, i) ==
    IF i > Len(snapshots) THEN up
    ELSE BatchLoop(BatchStep(up, snapshots[i]), snapshots, i + 1)

\* upload_snapshots_batch(snapshots), lines 220-261, with a new batch and count 0
upload_snapshots_batch(up, snapshots) ==
    BatchEnd(BatchLoop([up EXCEPT !.batch = <<>>, !.count = 0], snapshots, 1))

\* upload_session(data), lines 354-431: the uploader after the call, the tables of
\* data after the merges of lines 387-390 (the dicts of data are changed in place) and
\* the returned counts
upload_session(up, data) ==
    LET merged == {Merged(table, data.table_sentiments) : table \in data.tables}
        docs == [d \in {TableDocId(table) : table \in merged} |->
                    TableDoc(CHOOSE table \in merged : TableDocId(table) = d)]
        batched == upload_snapshots_batch(up, data.emotion_snapshots)
    IN  [uploader |-> [batched EXCEPT !.tables = docs @@ up.tables, !.pc = "uploaded"],
         tables |-> merged,
         val |-> [tables |-> Cardinality(data.tables),
                  snapshots |-> batched.count,
                  alerts |-> Len(data.alerts),
                  staff |-> Len(data.staff_performance)]]

-----------------------------------------------------------------------------
(* GeminiAnalyzer (src/model/gemini_analyzer.py).  The AI call of one alert is   *)
(* its outcome: kind "raise" (generate_content raises) or "text", with the       *)
(* response text and the JSON value that is left of it once lines 218-221 have   *)
(* removed a markdown fence, None if what is left is not JSON.  A JSON value is  *)
(* a record with its Python type: "dict" (fields), "list", "int" (val), "float"  *)
(* (tenths), "str" (text) or "none".  An exception is the name of its class, ""  *)
(* for none.                                                                     *)
(* Every text of the model is shorter than 200 characters, so text[:200] is the  *)
(* text.                                                                         *)

PyNone == [type |-> "none"]
PyNumber(n) == [type |-> "int", val |-> n]
PyFloat(tenths) == [type |-> "float", tenths |-> tenths]
PyText(text) == [type |-> "str", text |-> text]

\* the texts of the model that int() accepts
Numerals == [text \in {"7"} |-> 7]

\* int(value) of line 231: a float is truncated towards zero, a str is parsed or
\* raises ValueError, None raises TypeError
int(value) ==
    IF value.type = "int" THEN [raised |-> "", val |-> value.val]
    ELSE IF value.type = "float"
    THEN [raised |-> "",
          val |-> IF value.tenths >= 0 THEN value.tenths \div 10
                  ELSE -((-value.tenths) \div 10)]
    ELSE IF value.type = "str"
    THEN IF value.text \in DOMAIN Numerals
         THEN [raised |-> "", val |-> Numerals[value.text]]
         ELSE [raised |-> "ValueError", val |-> 0]
    ELSE [raised |-> "TypeError", val |-> 0]

\* result.get(key, default)
dict_get(result, key, default) ==
    IF key \in DOMAIN result.fields THEN result.fields[key] ELSE default

Clamp(n) == IF n < 1 THEN 1 ELSE IF n > 10 THEN 10 ELSE n

\* lines 239-243
ParseFailed(response_text) ==
    [root_cause |-> IF response_text # "" THEN PyText(response_text)
                    ELSE PyText("Analysis failed"),
     ai_recommendation |->
         PyText("Please review the situation manually and take appropriate action."),
     urgency_score |-> 5]

\* _parse_response(response_text), lines 214-243, on the outcome of the call: the
\* exception that leaves it, or the insights returned
_parse_response(outcome) ==
    IF outcome.body = None
    THEN [raised |-> "", val |-> ParseFailed(outcome.text)]      \* JSONDecodeError, caught
    ELSE LET result == outcome.body[1]
         IN  IF result.type # "dict"
             THEN [raised |-> "AttributeError", val |-> <<>>]
             ELSE LET score == int(dict_get(result, "urgency_score", PyNumber(5)))
                  IN  IF score.raised = "ValueError"
                      THEN [raised |-> "", val |-> ParseFailed(outcome.text)]
                      ELSE IF score.raised # ""
                      THEN [raised |-> score.raised, val |-> <<>>]
                      ELSE [raised |-> "",
                            val |-> [root_cause |->
                                        dict_get(result, "root_cause",
                                                 PyText("Analysis not available")),
                                     ai_recommendation |->
                                        dict_get(result, "ai_recommendation",
                                                 PyText("Please review manually")),
                                     urgency_score |-> Clamp(score.val)]]

\* lines 95-99
ApiError ==
    [root_cause |-> PyText("Unable to analyze - API error"),
     ai_recommendation |-> PyText("Please review manually and take appropriate action."),
     urgency_score |-> 5]

\* variant: only the failure of the API call itself is handled
CaughtOnlyFromTheCall(exception) == exception = "ApiException"

\* line 93: except Exception
CaughtByAnalyzeAlert(exception) == TRUE

\* analyze_alert, lines 78-99, on the outcome of the call
analyze_alert(outcome) ==
    LET tried == IF outcome.kind = "raise" THEN [raised |-> "ApiException", val |-> <<>>]
                 ELSE _parse_response(outcome)
    IN  IF tried.raised = "" THEN tried
        ELSE IF CaughtByAnalyzeAlert(tried.raised) THEN [raised |-> "", val |-> ApiError]
        ELSE tried

\* lines 280-282: the alert dict with the insights set on it
WithInsights(alert, insights) ==
    [f \in DOMAIN alert \cup {"root_cause", "ai_recommendation", "urgency_score"} |->
        IF f \in {"root_cause", "ai_recommendation", "urgency_score"} THEN insights[f]
        ELSE alert[f]]

\* analyze_alerts_batch, lines 262-290: the loop from alert i on, analyzed_alerts so
\* far; an exception leaves the loop and the function
RECURSIVE AnalyzeFrom(_, _, _, _)
AnalyzeFrom(alerts, outcomes, i, analyzed_alerts) ==
    IF i > Len(alerts) THEN [raised |-> "", val |-> analyzed_alerts]
    ELSE LET insights == analyze_alert(outcomes[i])
         IN  IF insights.raised # "" THEN [raised |-> insights.raised, val |-> <<>>]
             ELSE AnalyzeFrom(alerts, outcomes, i + 1,
                              Append(analyzed_alerts, WithInsights(alerts[i], insights.val)))

analyze_alerts_batch(alerts, outcomes) == AnalyzeFrom(alerts, outcomes, 1, <<>>)

-----------------------------------------------------------------------------
(* The session: process_video *)

MaxFrames == 60
MaxFaces == 2

Call(op, args, val, raised) == [op |-> op, args |-> args, val |-> val, raised |-> raised]

Init ==
    /\ person_tracker = PersonTrackerInit
    /\ scene_detector = SceneDetectorInit
    /\ data_store = DataStoreInit
    /\ anomaly_detector = AnomalyDetectorInit
    /\ current_table = 1
    /\ last_detections = <<>>
    /\ frame_count = 0
    /\ pc = "idle"
    /\ ret = Call("init", <<>>, <<>>, FALSE)
    /\ finalize_calls = <<>>
    /\ accepted = 0
    /\ discarded = {}
    /\ uploader = UploaderInit

VideoHists == {<<0>>, <<2>>}

VideoFaces ==
    {Face("ok", 50, 50, "angry", 90, <<0>>), Face("ok", 50, 50, "angry", 90, <<4>>),
     Face("ok", 50, 50, "neutral", 90, <<4>>), Face("ok", 50, 50, "neutral", 55, None),
     Face("ok", 50, 50, "angry", 30, <<4>>), Face("ok", 30, 50, "angry", 90, <<4>>),
     Face("no_region", 0, 0, "", 0, None), Face("no_emotion", 50, 50, "", 0, None)}

SeqsUpTo(S, n) == UNION {[1..k -> S] : k \in 0..n}

\* lines 717-720: the video cannot be opened
OpenFails ==
    /\ pc = "idle"
    /\ pc' = "failed"
    /\ ret' = Call("process_video", <<>>, <<>>, FALSE)
    /\ UNCHANGED <<person_tracker, scene_detector, data_store, anomaly_detector, current_table,
                   last_detections, frame_count, finalize_calls, accepted, discarded, uploader>>

\* lines 717-738
OpenVideo ==
    /\ pc = "idle"
    /\ pc' = "loop"
    /\ data_store' = init_table(data_store, 1)
    /\ ret' = Call("process_video", <<>>, <<>>, FALSE)
    /\ UNCHANGED <<person_tracker, scene_detector, anomaly_detector, current_table,
                   last_detections, frame_count, finalize_calls, accepted, discarded, uploader>>

\* lines 741-773, a frame that is not sampled
ReadSkipped ==
    /\ pc = "loop"
    /\ frame_count < MaxFrames
    /\ (frame_count + 1) % PROCESS_EVERY_N_FRAMES # 0
    /\ frame_count' = frame_count + 1
    /\ UNCHANGED <<person_tracker, scene_detector, data_store, anomaly_detector, current_table,
                   last_detections, pc, ret, finalize_calls, accepted, discarded, uploader>>

\* lines 741-773, a sampled frame: process_frame(frame, frame_count)
ReadProcessed ==
    /\ pc = "loop"
    /\ frame_count < MaxFrames
    /\ (frame_count + 1) % PROCESS_EVERY_N_FRAMES = 0
    /\ \E hist \in VideoHists, results \in SeqsUpTo(VideoFaces, MaxFaces) :
         LET out == process_frame(person_tracker, scene_detector, data_store, anomaly_detector,
                                  current_table, [hist |-> hist, results |-> results],
                                  frame_count + 1)
         IN  /\ frame_count' = frame_count + 1
             /\ person_tracker' = out.person_tracker
             /\ scene_detector' = out.scene_detector
             /\ data_store' = out.data_store
             /\ anomaly_detector' = out.anomaly_detector
             /\ current_table' = out.current_table
             /\ last_detections' = out.last_detections
             /\ ret' = Call("process_frame", <<>>, <<>>, out.raised)
             /\ finalize_calls' = finalize_calls \o out.finalized
             /\ accepted' = AcceptedCount(results)
             /\ discarded' = (IF out.finalized # <<>> THEN out.dropped ELSE discarded)
    /\ UNCHANGED <<pc, uploader>>

\* lines 742-743 and 773-784: the source is exhausted or q is pressed; the open table
\* is finalized and process_video returns report(), the exported document
EndVideo ==
    /\ pc = "loop"
    /\ pc' = "done"
    /\ \E out \in {export(finalize_table(data_store, current_table))} :
         /\ data_store' = out.data_store
         /\ ret' = Call("process_video", <<>>, out.val, FALSE)
    /\ finalize_calls' = Append(finalize_calls, current_table)
    /\ UNCHANGED <<person_tracker, scene_detector, anomaly_detector, current_table,
                   last_detections, frame_count, accepted, discarded, uploader>>

Next == OpenFails \/ OpenVideo \/ ReadSkipped \/ ReadProcessed \/ EndVideo

Spec == Init /\ [][Next]_vars

-----------------------------------------------------------------------------
(* DataStore and AnomalyDetector called directly, in any order *)

MaxEvents == 3
MaxAnger == 2

StoreTables == {1, 2}

\* the detections recorded directly: (person_id, person_type, person_name, emotion)
StoreDetections ==
    {<<"guest_1", "guest", "Guest 1", "neutral">>, <<"guest_1", "guest", "Guest 1", "happy">>,
     <<"staff_Asha", "staff", "Asha", "angry">>}

CheckEmotions == {"angry", "neutral"}
CheckConfidences == {55, 90}

\* all the high-confidence anger counted so far
AngerTotal ==
    SumOver([t \in DOMAIN anomaly_detector.table_anger |->
                anomaly_detector.table_anger[t].guest + anomaly_detector.table_anger[t].staff],
            DOMAIN anomaly_detector.table_anger)

StoreOnly == UNCHANGED <<person_tracker, scene_detector, current_table, last_detections,
                         frame_count, pc, finalize_calls, accepted, discarded, uploader>>

AddDetection ==
    /\ Len(data_store.snapshots) < MaxEvents
    /\ \E t \in StoreTables, d \in StoreDetections :
         /\ data_store' = add_detection(data_store, t, d[1], d[2], d[3], d[4], 90,
                                        [x |-> 0, y |-> 0, w |-> 50, h |-> 50])
         /\ ret' = Call("add_detection", <<>>, <<>>, FALSE)
    /\ UNCHANGED anomaly_detector
    /\ StoreOnly

Check ==
    /\ \E t \in StoreTables, ptype \in {"guest", "staff"}, e \in CheckEmotions,
          c \in CheckConfidences :
         /\ CountsAsAnger(e, c) => AngerTotal < MaxAnger
         /\ LET out == check(anomaly_detector, data_store, t, ptype, e, c)
            IN  /\ anomaly_detector' = out.anomaly_detector
                /\ data_store' = out.data_store
                /\ ret' = Call("check", <<t>>, out.alert, FALSE)
    /\ StoreOnly

NextStore == AddDetection \/ Check

SpecStore == Init /\ [][NextStore]_vars

\* finalize_table never raises: a table number that is not a key is skipped
FinalizeTable ==
    /\ \E t \in StoreTables :
         /\ data_store' = finalize_table(data_store, t)
         /\ ret' = Call("finalize_table", <<t, t \in DOMAIN data_store.tables>>, <<>>, FALSE)
    /\ UNCHANGED anomaly_detector
    /\ StoreOnly

NextTables == AddDetection \/ FinalizeTable

SpecTables == Init /\ [][NextTables]_vars

-----------------------------------------------------------------------------
(* PersonTracker called directly, as process_frame calls it (lines 641-647) *)

MaxGuests == 2

TrackerEncodings == {None, <<0>>, <<4>>, <<5>>, <<6>>}

TrackerOnly == UNCHANGED <<scene_detector, data_store, anomaly_detector, current_table,
                           last_detections, frame_count, pc, finalize_calls, accepted,
                           uploader>>

GetOrCreate ==
    /\ \E encoding \in TrackerEncodings :
         LET staff == IF encoding # None THEN match(encoding) ELSE None
             got == get_or_create(person_tracker, encoding, staff # None,
                                  IF staff # None THEN staff[1] ELSE "")
         IN  /\ got.person_tracker.guest_counter <= MaxGuests
             /\ person_tracker' = got.person_tracker
             /\ ret' = Call("get_or_create", <<encoding>>, got.val, FALSE)
    /\ UNCHANGED discarded
    /\ TrackerOnly

ResetGuests ==
    /\ person_tracker' = reset_guests(person_tracker)
    /\ discarded' = DroppedGuests(person_tracker)
    /\ ret' = Call("reset_guests", <<>>, <<>>, FALSE)
    /\ TrackerOnly

NextTracker == GetOrCreate \/ ResetGuests

SpecTracker == Init /\ [][NextTracker]_vars

-----------------------------------------------------------------------------
(* SceneDetector called directly, once per frame; frame_count is the caller's *)

MaxChecks == 6

SceneHists == {<<0>>, <<1>>, <<2>>}

SceneCheck ==
    /\ frame_count < MaxChecks
    /\ frame_count' = frame_count + 1
    /\ \E hist \in SceneHists :
         LET sc == scene_check(scene_detector, hist, frame_count + 1)
         IN  /\ scene_detector' = sc.scene_detector
             /\ ret' = Call("check", <<hist>>, <<sc.changed, sc.table_num>>, FALSE)
    /\ UNCHANGED <<person_tracker, data_store, anomaly_detector, current_table,
                   last_detections, pc, finalize_calls, accepted, discarded, uploader>>

NextScene == SceneCheck

SpecScene == Init /\ [][NextScene]_vars

-----------------------------------------------------------------------------
(* Properties of the anomaly rules, under SpecStore *)

alerts == data_store.alerts

AngerOf(t) ==
    IF t \in DOMAIN anomaly_detector.table_anger THEN anomaly_detector.table_anger[t]
    ELSE NoAnger

TableDataOf(t) ==
    IF t \in DOMAIN data_store.table_data THEN data_store.table_data[t] ELSE EmptyTableData

AlertsOf(list, t, alert_type) ==
    {i \in 1..Len(list) : list[i].table_number = t /\ list[i].alert_type = alert_type}

DisputeAlert(t) == Alert(t, "dispute_staff_customer", "urgent", "Staff-Customer Dispute")

\* the dedup key an alert was created under
KeyOf(a) ==
    IF a.alert_type = "dispute_staff_customer" THEN DisputeStaffKey(a.table_number)
    ELSE IF a.alert_type = "dispute_customers" THEN DisputeGuestKey(a.table_number)
    ELSE ServiceKey(a.table_number)

\* C1: after any sequence of check (and add_detection) calls the alert list holds
\* at most one alert per (table number, alert type) pair.
C1_OneAlertPerTableAndType ==
    \A i, j \in 1..Len(alerts) :
        (alerts[i].table_number = alerts[j].table_number
         /\ alerts[i].alert_type = alerts[j].alert_type) => i = j

\* C1 witness: the last check call re-evaluated, on its table, a rule 1 condition that
\* is still true after its alert was created, and created nothing.
C1_Witness ==
    /\ ret.op = "check" /\ ret.val = None
    /\ AngerOf(ret.args[1]).guest >= 1 /\ AngerOf(ret.args[1]).staff >= 1
    /\ AlertsOf(alerts, ret.args[1], "dispute_staff_customer") # {}

\* C2 (as claimed): on a check call that creates several alerts, the returned alert is
\* the first one created, in the rule order 1, 2, 3.
C2_ReturnsFirstFired ==
    [][Len(data_store'.alerts) >= Len(alerts) + 2
         => ret'.val = Some(data_store'.alerts[Len(alerts) + 1])]_vars

\* C3 (as claimed): a check call appends at most one alert, and every alert it appends
\* is its return value.
C3_AppendsOnlyTheReturnedAlert ==
    [][/\ Len(data_store'.alerts) <= Len(alerts) + 1
       /\ \A k \in (Len(alerts) + 1)..Len(data_store'.alerts) :
              ret'.val = Some(data_store'.alerts[k])]_vars

\* table t after one high-confidence guest anger event on a fresh table: the counters
\* are (guest 1, staff 0), no key of t has fired, and the recorded history of t holds
\* at most that event and the staff event of the next call
AfterGuestAnger(t) ==
    /\ AngerOf(t) = [guest |-> 1, staff |-> 0]
    /\ {DisputeStaffKey(t), DisputeGuestKey(t), ServiceKey(t)} \cap anomaly_detector.alerted = {}
    /\ Len(TableDataOf(t).guest_emotions) <= 1
    /\ Len(TableDataOf(t).staff_emotions) <= 1

IsPrefix(s, t) == Len(s) <= Len(t) /\ \A i \in 1..Len(s) : s[i] = t[i]

\* C5: a created alert stays in the list, unchanged and unresolved, and its dedup key
\* stays fired, whatever check and add_detection calls follow.
C5_AlertsArePermanent ==
    /\ [][IsPrefix(alerts, data_store'.alerts)
          /\ anomaly_detector.alerted \subseteq anomaly_detector'.alerted]_vars
    /\ [](\A i \in 1..Len(alerts) :
             alerts[i].is_resolved = FALSE /\ KeyOf(alerts[i]) \in anomaly_detector.alerted)

\* C5 witness: an add_detection call has followed the creation of a dispute alert, whose
\* table still has it, unresolved, with its key fired.
C5_Witness ==
    /\ ret.op = "add_detection"
    /\ \E t \in StoreTables :
          /\ AlertsOf(alerts, t, "dispute_staff_customer") # {}
          /\ DisputeStaffKey(t) \in anomaly_detector.alerted
          /\ Len(TableDataOf(t).guest_emotions) >= 1

-----------------------------------------------------------------------------
(* Properties of the scene detector, under SpecScene *)

\* C6: the table number starts at 1, never decreases, grows by exactly 1 on a call
\* that reports changed and by 0 otherwise, so the numbers issued are 1..current_table:
\* every earlier number has ended once and the call returns the current one.
C6_TableNumbersAreGapless ==
    /\ scene_detector.current_table = 1
    /\ [][scene_detector'.current_table =
             scene_detector.current_table + (IF ret'.val[1] THEN 1 ELSE 0)]_vars
    /\ [](/\ scene_detector.current_table >= 1
          /\ DOMAIN scene_detector.table_frames = 1..(scene_detector.current_table - 1)
          /\ (ret.op = "check" => ret.val[2] = scene_detector.current_table))

\* C6 witness: two changes have been reported and the last call reported none.
C6_Witness ==
    ret.op = "check" /\ ret.val[1] = FALSE /\ scene_detector.current_table = 3

-----------------------------------------------------------------------------
(* Properties of the person tracker, under SpecTracker *)

persons == person_tracker.persons

\* the guest ids minted since the last reset
CurrentGuestIds == {GuestId(k) : k \in 1..person_tracker.guest_counter}

ReturnedGuest == ret.op = "get_or_create" /\ ret.val[2] = "guest"

\* C7 (as claimed): after reset_guests, get_or_create never returns a guest id that
\* was issued before the reset.
C7_NeverReturnsPreResetId ==
    ReturnedGuest => ret.val[1] \notin {d.pid : d \in discarded}

\* C7 (amended): get_or_create never matches a guest tracked before the reset: every
\* tracked guest, and every guest returned, was minted since the last reset.
C7_NeverMatchesPreResetGuest ==
    /\ \A i \in 1..Len(persons) :
          persons[i].type = "guest" => persons[i].pid \in CurrentGuestIds
    /\ ReturnedGuest =>
          /\ ret.val[1] \in CurrentGuestIds
          /\ \E i \in 1..Len(persons) :
                persons[i].pid = ret.val[1] /\ persons[i].encoding = ret.args[1]

\* C7 witness: after a reset, a call with the embedding stored for a dropped guest
\* returned a guest that was minted by the call.
C7_Witness ==
    /\ ReturnedGuest
    /\ ret.args[1] # None
    /\ \E d \in discarded : d.encoding = ret.args[1]
    /\ person_tracker.guest_counter = 1

-----------------------------------------------------------------------------
(* Properties of the session, under Spec *)

Range(s) == {s[i] : i \in 1..Len(s)}

\* C8: every table is closed exactly once: finalize_table is called for the table that
\* ends when the scene detector reports a boundary and for the open table when the
\* source is exhausted, and at no other time.
C8_EachTableFinalizedOnce ==
    /\ [](/\ \A i, j \in 1..Len(finalize_calls) : finalize_calls[i] = finalize_calls[j] => i = j
          /\ pc \in {"idle", "failed"} => finalize_calls = <<>>
          /\ pc = "loop" => Range(finalize_calls) = 1..(current_table - 1)
          /\ pc = "done" => Range(finalize_calls) = 1..current_table
          /\ \A t \in Range(finalize_calls) :
                t \in DOMAIN data_store.tables /\ data_store.tables[t].end_time = Now)
    /\ [][IF \/ scene_detector'.current_table # scene_detector.current_table
             \/ (pc = "loop" /\ pc' = "done")
          THEN finalize_calls' = Append(finalize_calls, current_table)
          ELSE finalize_calls' = finalize_calls]_vars

\* C8 witness: a session with a table change has ended.
C8_Witness == pc = "done" /\ finalize_calls = <<1, 2>>

\* C10 (as claimed): a failure on one tuple of a frame does not stop the other tuples
\* of the frame from being recorded: every well-formed tuple that passes the filters
\* is in the frame's detections.
C10_FailureIsolatedPerTuple ==
    ret.op = "process_frame" => Len(last_detections) = accepted

-----------------------------------------------------------------------------
(* Properties of the table map, under SpecTables *)

\* C9 (as claimed): finalize_table with a table number that was never opened raises.
C9_FinalizeUnopenedRaises ==
    (ret.op = "finalize_table" /\ ~ret.args[2]) => ret.raised

-----------------------------------------------------------------------------
(* DataStore.add_detection called directly, with two guests and one staff member *)

\* (person_id, person_type, person_name, emotion)
CountDetections ==
    {<<"guest_1", "guest", "Guest 1", "neutral">>, <<"guest_2", "guest", "Guest 2", "neutral">>,
     <<"staff_Asha", "staff", "Asha", "neutral">>}

CountDetection ==
    /\ Len(data_store.snapshots) < MaxEvents
    /\ \E t \in StoreTables, d \in CountDetections :
         /\ data_store' = add_detection(data_store, t, d[1], d[2], d[3], d[4], 90,
                                        [x |-> 0, y |-> 0, w |-> 50, h |-> 50])
         /\ ret' = Call("add_detection", <<t, d[1], d[2]>>, <<>>, FALSE)
    /\ UNCHANGED anomaly_detector
    /\ StoreOnly

NextCount == CountDetection

SpecCount == Init /\ [][NextCount]_vars

\* sum over all tables of the size of the table's guest set
GuestSetSizes ==
    SumOver([t \in DOMAIN data_store.table_data |->
                Cardinality(data_store.table_data[t].guests)],
            DOMAIN data_store.table_data)

\* C12: a guest event increments total_guests exactly when its guest id is not yet in
\* its table's guest set, a staff event never changes it, and so total_guests is always
\* the sum over all tables of the size of the table's guest set.
C12_TotalGuestsIsSumOfGuestSets ==
    /\ [][LET t == ret'.args[1]
              person_id == ret'.args[2]
              person_type == ret'.args[3]
          IN  data_store'.total_guests = data_store.total_guests +
                 (IF person_type = "guest" /\ person_id \notin TableDataOf(t).guests
                  THEN 1 ELSE 0)]_vars
    /\ [](data_store.total_guests = GuestSetSizes)

\* C12 witness: three events, the last one a guest repeated on its table, after a guest
\* was counted on the other table.
C12_Witness ==
    /\ ret.op = "add_detection" /\ ret.args[3] = "guest"
    /\ data_store.total_guests = 2
    /\ Len(data_store.snapshots) = 3
    /\ Len(TableDataOf(ret.args[1]).guest_emotions) = 2
    /\ Cardinality(TableDataOf(ret.args[1]).guests) = 1

-----------------------------------------------------------------------------
(* Properties of get_or_create and reset_guests, under SpecTracker *)

\* the positions of the tracked guests that have no stored embedding
NullGuests(ps) == {i \in 1..Len(ps) : ps[i].type = "guest" /\ ps[i].encoding = None}

\* C13: get_or_create with a null embedding (and so no staff match) always mints a new
\* guest with no stored embedding, and a tracked guest with no stored embedding is
\* never the person a later get_or_create call returns, whatever embedding it is given.
C13_NullEmbeddingGuestNeverMatched ==
    [][ret'.op = "get_or_create" =>
         /\ ret'.args[1] = None =>
              LET n == person_tracker.guest_counter + 1
              IN  /\ ret'.val = <<GuestId(n), "guest", GuestName(n)>>
                  /\ GuestId(n) \notin PersonIds(persons)
                  /\ person_tracker'.guest_counter = n
                  /\ person_tracker'.persons =
                        Append(persons, [pid |-> GuestId(n), type |-> "guest",
                                         name |-> GuestName(n), encoding |-> None])
         /\ \A i \in NullGuests(persons) :
              /\ ret'.val[1] # persons[i].pid
              /\ person_tracker'.persons[i] = persons[i]]_vars

\* C13 witness: the first guest was minted by a null-embedding call, and a later call
\* with an embedding returned the second guest.
C13_Witness ==
    /\ ret.op = "get_or_create" /\ ret.args[1] # None
    /\ Len(persons) = 2
    /\ persons[1].pid = GuestId(1) /\ persons[1].encoding = None
    /\ ret.val[1] = GuestId(2)

\* the tracked entries of one type, in insertion order
EntriesOfType(ps, type) ==
    LET OfType(p) == p.type = type IN SelectSeq(ps, OfType)

\* C14: reset_guests removes every guest person, sets the guest counter to zero, and
\* leaves every staff person (id, name, stored embedding) exactly as it was.
C14_ResetGuestsKeepsStaffOnly ==
    [][ret'.op = "reset_guests" =>
         /\ EntriesOfType(person_tracker'.persons, "guest") = <<>>
         /\ person_tracker'.guest_counter = 0
         /\ EntriesOfType(person_tracker'.persons, "staff") = EntriesOfType(persons, "staff")
         /\ Len(person_tracker'.persons) = Len(EntriesOfType(persons, "staff"))]_vars

\* C14 witness: a reset has just dropped two guests and kept a staff person.
C14_Witness ==
    /\ ret.op = "reset_guests"
    /\ Cardinality(discarded) = 2
    /\ person_tracker.guest_counter = 0
    /\ Len(persons) = 1 /\ persons[1].type = "staff"

\* the tracked guests whose stored embedding is within the person-tracking threshold
NearGuests(ps, encoding) ==
    {i \in 1..Len(ps) :
        /\ ps[i].type = "guest"
        /\ ps[i].encoding # None
        /\ face_distance(ps[i].encoding, encoding) < PERSON_TRACKING_THRESHOLD}

\* C16: when a non-staff embedding is within the person-tracking threshold of a tracked
\* guest's stored embedding, get_or_create returns the id of such a guest (the first one
\* in insertion order), creates no person, does not advance the guest counter, and
\* replaces that guest's stored embedding with the new embedding, leaving every other
\* person unchanged.
C16_MatchReplacesEmbeddingOnly ==
    [][(/\ ret'.op = "get_or_create"
        /\ ret'.args[1] # None
        /\ match(ret'.args[1]) = None
        /\ NearGuests(persons, ret'.args[1]) # {})
       => LET near == NearGuests(persons, ret'.args[1])
              i == CHOOSE k \in near : \A j \in near : k <= j
          IN  /\ ret'.val = <<persons[i].pid, "guest", persons[i].name>>
              /\ Len(person_tracker'.persons) = Len(persons)
              /\ person_tracker'.guest_counter = person_tracker.guest_counter
              /\ person_tracker'.persons[i] =
                    [pid |-> persons[i].pid, type |-> "guest", name |-> persons[i].name,
                     encoding |-> ret'.args[1]]
              /\ \A j \in 1..Len(persons) :
                    j # i => person_tracker'.persons[j] = persons[j]]_vars

\* C16 witness: of two tracked guests, both within the threshold of the new embedding,
\* the first was returned and now stores the new embedding, which is neither its old
\* one nor the other guest's.
C16_Witness ==
    /\ ret.op = "get_or_create" /\ ret.args[1] = <<5>>
    /\ ret.val[1] = GuestId(1)
    /\ Len(persons) = 2 /\ person_tracker.guest_counter = 2
    /\ persons[1].pid = GuestId(1) /\ persons[1].encoding = <<5>>
    /\ persons[2].pid = GuestId(2) /\ persons[2].encoding = <<6>>

-----------------------------------------------------------------------------
(* StaffRecognizer.match applied to any gallery and embedding *)

MaxGallery == 2

GalleryNames == {"Asha", "Ben", "Cara"}
GalleryEncodings == {<<0>>, <<1>>, <<3>>}
ProbeEncodings == {None, <<0>>, <<2>>, <<6>>}

\* staff_data dicts of up to MaxGallery entries, in insertion order: the keys are distinct
Galleries ==
    {g \in SeqsUpTo([name : GalleryNames, encoding : GalleryEncodings], MaxGallery) :
        \A i, j \in 1..Len(g) : g[i].name = g[j].name => i = j}

Match ==
    /\ \E staff \in Galleries, face_encoding \in ProbeEncodings :
         ret' = Call("match", <<staff, face_encoding>>, match_of(staff, face_encoding), FALSE)
    /\ UNCHANGED <<person_tracker, scene_detector, data_store, anomaly_detector, current_table,
                   last_detections, frame_count, pc, finalize_calls, accepted, discarded, uploader>>

NextMatch == Match

SpecMatch == Init /\ [][NextMatch]_vars

\* the positions of the gallery entries strictly below the staff-match threshold
BelowThreshold(staff, face_encoding) ==
    {i \in 1..Len(staff) :
        24 * Abs(staff[i].encoding[1] - face_encoding[1]) < STAFF_MATCH_THRESHOLD}

\* C15: match returns the first gallery entry, in insertion order, whose distance to the
\* embedding is strictly below the staff-match threshold, even when a later entry is
\* closer; it returns no match when no entry is below the threshold, when the gallery
\* is empty, or when the embedding is null.
C15_MatchIsFirstAcceptable ==
    ret.op = "match" =>
        LET staff == ret.args[1]
            face_encoding == ret.args[2]
        IN  IF staff = <<>> \/ face_encoding = None
            THEN ret.val = None
            ELSE IF BelowThreshold(staff, face_encoding) = {}
                 THEN ret.val = None
                 ELSE \E i \in BelowThreshold(staff, face_encoding) :
                         /\ \A j \in 1..(i - 1) : j \notin BelowThreshold(staff, face_encoding)
                         /\ ret.val = Some(staff[i].name)

\* C15 witness: the first entry was returned although the second one, also below the
\* threshold, is closer to the embedding.
C15_Witness ==
    /\ ret.op = "match"
    /\ ret.args[1] = << [name |-> "Ben", encoding |-> <<0>>], [name |-> "Asha", encoding |-> <<1>>] >>
    /\ ret.args[2] = <<2>>
    /\ ret.val = Some("Ben")

-----------------------------------------------------------------------------
(* Properties of the first scene check, under SpecScene *)

\* C17: the first SceneDetector.check call of a session never reports a change,
\* whatever the frame signature is: it returns (False, 1) and keeps the signature.
C17_FirstCheckReportsNoChange ==
    [][frame_count = 0 =>
         /\ ret'.val = <<FALSE, 1>>
         /\ scene_detector'.current_table = 1
         /\ scene_detector'.prev_hist = ret'.args[1]]_vars

\* C17 witness: the first call, with the signature farthest from an empty one, has
\* returned no change.
C17_Witness ==
    /\ frame_count = 1
    /\ ret.op = "check" /\ ret.args[1] = <<2>>
    /\ ret.val[1] = FALSE

-----------------------------------------------------------------------------
(* _calc_sentiment applied to any emotion list *)

MaxEmotions == 3

\* the seven labels of the classifier and one it does not produce
SentimentLabels ==
    {"happy", "surprise", "neutral", "sad", "fear", "disgust", "angry", "contempt"}

\* the list is drawn first, then the function is applied to it
InitSentiment ==
    /\ person_tracker = PersonTrackerInit
    /\ scene_detector = SceneDetectorInit
    /\ data_store = DataStoreInit
    /\ anomaly_detector = AnomalyDetectorInit
    /\ current_table = 1
    /\ last_detections = <<>>
    /\ frame_count = 0
    /\ pc = "idle"
    /\ \E emotions \in SeqsUpTo(SentimentLabels, MaxEmotions) :
          ret = Call("emotions", <<emotions>>, <<>>, FALSE)
    /\ finalize_calls = <<>>
    /\ accepted = 0
    /\ discarded = {}
    /\ uploader = UploaderInit

CalcSentiment ==
    /\ ret.op = "emotions"
    /\ ret' = Call("_calc_sentiment", ret.args, _calc_sentiment(ret.args[1]), FALSE)
    /\ UNCHANGED <<person_tracker, scene_detector, data_store, anomaly_detector, current_table,
                   last_detections, frame_count, pc, finalize_calls, accepted, discarded, uploader>>

NextSentiment == CalcSentiment

SpecSentiment == InitSentiment /\ [][NextSentiment]_vars

\* the weight table in hundredths, as exact integers
WeightHundredths(e) ==
    CASE e = "happy" -> 100 [] e = "surprise" -> 65 [] e = "neutral" -> 50 [] e = "sad" -> 20
      [] e = "fear" -> 15 [] e = "disgust" -> 10 [] e = "angry" -> 0 [] OTHER -> 50

\* 100 times the sum of the weights of a list, exactly
RECURSIVE HundredthsSum(_)
HundredthsSum(emotions) ==
    IF emotions = <<>> THEN 0
    ELSE WeightHundredths(Head(emotions)) + HundredthsSum(Tail(emotions))

SentimentReturned == ret.op = "_calc_sentiment"

\* C18 (as claimed): for every non-empty emotion list, avg_happiness is 100 times the
\* mean of the per-emotion weights rounded to the nearest integer: it is within one
\* half of the exact value.
C18_AvgHappinessIsRounded ==
    (SentimentReturned /\ ret.args[1] # <<>>) =>
        LET n == Len(ret.args[1])
        IN  2 * Abs(ret.val.avg_happiness * n - HundredthsSum(ret.args[1])) <= n

\* C19: _calc_sentiment on the empty list returns avg_happiness 0, dominant 'neutral'
\* and trend 'stable'.
C19_EmptyListIsNeutral ==
    (SentimentReturned /\ ret.args[1] = <<>>) =>
        /\ ret.val.avg_happiness = 0
        /\ ret.val.dominant = "neutral"
        /\ ret.val.trend = "stable"

\* C19 witness: the function has been applied to the empty list.
C19_Witness == SentimentReturned /\ ret.args[1] = <<>> /\ ret.val.avg_happiness = 0

\* how often a label occurs in a list, and where it occurs first
Occurrences(emotions, e) == Cardinality({i \in 1..Len(emotions) : emotions[i] = e})

FirstIndex(emotions, e) == MinOf({i \in 1..Len(emotions) : emotions[i] = e})

\* C20: for every non-empty emotion list, the dominant emotion is a label with the
\* maximal occurrence count, and among the labels tied for the maximum it is the one
\* that occurs first in the list.
C20_DominantIsFirstSeenMaximum ==
    (SentimentReturned /\ ret.args[1] # <<>>) =>
        LET emotions == ret.args[1]
            labels == {emotions[i] : i \in 1..Len(emotions)}
            d == ret.val.dominant
        IN  /\ d \in labels
            /\ \A e \in labels :
                  /\ Occurrences(emotions, e) <= Occurrences(emotions, d)
                  /\ Occurrences(emotions, e) = Occurrences(emotions, d)
                        => FirstIndex(emotions, d) <= FirstIndex(emotions, e)

\* C20 witness: three labels tied at one occurrence, the first one seen is returned
\* although both others sort before it alphabetically.
C20_Witness ==
    /\ SentimentReturned
    /\ ret.args[1] = <<"sad", "happy", "angry">>
    /\ ret.val.dominant = "sad"

-----------------------------------------------------------------------------
(* The ledger under every operation of the store: add_detection, the check that *)
(* process_frame makes for the detection just recorded (lines 650-672), which   *)
(* calls add_alert, finalize_table and export                                   *)

\* (person_id, person_type, person_name, emotion)
LedgerDetections ==
    {<<"guest_1", "guest", "Guest 1", "neutral">>, <<"staff_Asha", "staff", "Asha", "angry">>}

RecordDetection ==
    /\ Len(data_store.snapshots) < MaxEvents
    /\ \E t \in StoreTables, d \in LedgerDetections :
         /\ data_store' = add_detection(data_store, t, d[1], d[2], d[3], d[4], 90,
                                        [x |-> 0, y |-> 0, w |-> 50, h |-> 50])
         /\ ret' = Call("add_detection", <<t, d[1], d[2]>>, <<>>, FALSE)
    /\ UNCHANGED anomaly_detector
    /\ StoreOnly

CheckRecorded ==
    /\ ret.op = "add_detection"
    /\ LET snapshot == data_store.snapshots[Len(data_store.snapshots)]
           out == check(anomaly_detector, data_store, snapshot.table_number,
                        snapshot.person_type, snapshot.emotion, snapshot.confidence)
       IN  /\ anomaly_detector' = out.anomaly_detector
           /\ data_store' = out.data_store
           /\ ret' = Call("check", <<snapshot.table_number>>, out.alert, FALSE)
    /\ StoreOnly

Export ==
    /\ \E out \in {export(data_store)} :
         /\ data_store' = out.data_store
         /\ ret' = Call("export", <<>>, out.val, FALSE)
    /\ UNCHANGED anomaly_detector
    /\ StoreOnly

NextLedger == RecordDetection \/ CheckRecorded \/ FinalizeTable \/ Export

SpecLedger == Init /\ [][NextLedger]_vars

\* C11: the detection ledger is append-only: each add_detection call appends exactly
\* one new event at the end, and no operation of the core (add_detection,
\* finalize_table, add_alert, check, export) removes, reorders or changes an event
\* appended before; export hands out the ledger as it is.
C11_LedgerIsAppendOnly ==
    [][/\ IsPrefix(data_store.snapshots, data_store'.snapshots)
       /\ Len(data_store'.snapshots) =
             Len(data_store.snapshots) + (IF ret'.op = "add_detection" THEN 1 ELSE 0)
       /\ ret'.op = "add_detection" =>
             LET snapshot == data_store'.snapshots[Len(data_store'.snapshots)]
             IN  /\ snapshot.table_number = ret'.args[1]
                 /\ snapshot.person_id = ret'.args[2]
                 /\ snapshot.person_type = ret'.args[3]
       /\ ret'.op = "export" => ret'.val.emotion_snapshots = data_store.snapshots]_vars

\* C11 witness: an export of a ledger of three events, made after a check that created
\* an alert and after a table was finalized.
C11_Witness ==
    /\ ret.op = "export"
    /\ Len(ret.val.emotion_snapshots) = 3
    /\ data_store.snapshots = ret.val.emotion_snapshots
    /\ data_store.alerts # <<>>
    /\ \E t \in DOMAIN data_store.tables : data_store.tables[t].end_time = Now

-----------------------------------------------------------------------------
(* The trend of _calc_sentiment on lists long enough for the halves' means to *)
(* differ by exactly the threshold                                            *)

MaxTrend == 9

TrendLabels == {"sad", "angry"}

InitTrend ==
    /\ person_tracker = PersonTrackerInit
    /\ scene_detector = SceneDetectorInit
    /\ data_store = DataStoreInit
    /\ anomaly_detector = AnomalyDetectorInit
    /\ current_table = 1
    /\ last_detections = <<>>
    /\ frame_count = 0
    /\ pc = "idle"
    /\ \E emotions \in SeqsUpTo(TrendLabels, MaxTrend) :
          ret = Call("emotions", <<emotions>>, <<>>, FALSE)
    /\ finalize_calls = <<>>
    /\ accepted = 0
    /\ discarded = {}
    /\ uploader = UploaderInit

NextTrend == CalcSentiment

SpecTrend == InitTrend /\ [][NextTrend]_vars

\* the trend by exact arithmetic: with the halves' weight sums s1 and s2 in hundredths,
\* s2 / (n - mid) - s1 / mid > 0.12 is s2 * mid - s1 * (n - mid) > 12 * mid * (n - mid)
ExactTrend(emotions) ==
    LET n == Len(emotions)
        mid == n \div 2
        d == HundredthsSum(SubSeq(emotions, mid + 1, n)) * mid
               - HundredthsSum(SubSeq(emotions, 1, mid)) * (n - mid)
    IN  IF n < 4 THEN "stable"
        ELSE IF d > 12 * mid * (n - mid) THEN "improving"
        ELSE IF d < 0 - 12 * mid * (n - mid) THEN "deteriorating"
        ELSE "stable"

\* C21 (as claimed): the trend is 'stable' for fewer than 4 emotions; for n >= 4
\* emotions split at floor(n/2) it is 'improving' iff the mean weight of the second
\* half minus the mean weight of the first half is strictly greater than 0.12,
\* 'deteriorating' iff it is strictly less than -0.12, and 'stable' otherwise.
C21_TrendIsThresholdOfHalfMeans ==
    (SentimentReturned /\ ret.args[1] # <<>>) =>
        ret.val.trend = ExactTrend(ret.args[1])

-----------------------------------------------------------------------------
(* calc_metrics on stores filled by add_detection with up to MaxWalkins guest *)
(* detections                                                                 *)

MaxWalkins == 50

\* the label of the guest detections that follow the happy ones
OtherLabels == {"neutral", "surprise", "sad"}

\* the store after i guest detections, alternating between two tables: the first
\* happy ones are 'happy', the rest are `other`; `first` is the store before them
RECURSIVE Recorded(_, _, _, _)
Recorded(i, happy, other, first) ==
    IF i = 0 THEN first
    ELSE CHOOSE next \in
            {add_detection(ds, 1 + (i % 2), GuestId(1), "guest", GuestName(1),
                           IF i <= happy THEN "happy" ELSE other, 90,
                           [x |-> 0, y |-> 0, w |-> 50, h |-> 50]) :
             ds \in {Recorded(i - 1, happy, other, first)}} : TRUE

\* a store with no detection, and one with a single staff detection
FirstStores ==
    {DataStoreInit,
     add_detection(DataStoreInit, 1, StaffId("Asha"), "staff", "Asha", "happy", 90,
                   [x |-> 0, y |-> 0, w |-> 50, h |-> 50])}

InitMetrics ==
    /\ person_tracker = PersonTrackerInit
    /\ scene_detector = SceneDetectorInit
    /\ \E total \in 0..MaxWalkins, other \in OtherLabels, first \in FirstStores :
         \E happy \in 0..total :
            data_store = Recorded(total, happy, other, first)
    /\ anomaly_detector = AnomalyDetectorInit
    /\ current_table = 1
    /\ last_detections = <<>>
    /\ frame_count = 0
    /\ pc = "idle"
    /\ ret = Call("init", <<>>, <<>>, FALSE)
    /\ finalize_calls = <<>>
    /\ accepted = 0
    /\ discarded = {}
    /\ uploader = UploaderInit

CalcMetrics ==
    /\ ret.op = "init"
    /\ ret' = Call("calc_metrics", <<>>, calc_metrics(data_store), FALSE)
    /\ UNCHANGED <<anomaly_detector, data_store>>
    /\ StoreOnly

NextMetrics == CalcMetrics

SpecMetrics == InitMetrics /\ [][NextMetrics]_vars

\* how many guest events of the ledger carry an emotion of the set S
GuestEvents(S) ==
    Cardinality({i \in 1..Len(data_store.snapshots) :
                    /\ data_store.snapshots[i].person_type = "guest"
                    /\ data_store.snapshots[i].emotion \in S})

AllLabels == {"happy", "surprise", "neutral", "sad", "fear", "disgust", "angry"}

\* C22 (as claimed): calc_metrics returns 0 for every percentage and for the service
\* score when no guest emotion has been recorded; otherwise each value is the integer
\* truncation of 100 * count / total over the guest emotions of all tables, with
\* happy, neutral, confused = fear + surprise, angry = angry + sad + disgust and
\* service score = happy + surprise; staff emotions never enter.
C22_MetricsAreTruncatedPercentages ==
    ret.op = "calc_metrics" =>
        LET total == GuestEvents(AllLabels)
            pct(S) == IF total = 0 THEN 0 ELSE (100 * GuestEvents(S)) \div total
        IN  /\ ret.val.happy_pct = pct({"happy"})
            /\ ret.val.neutral_pct = pct({"neutral"})
            /\ ret.val.confused_pct = pct({"fear", "surprise"})
            /\ ret.val.angry_pct = pct({"angry", "sad", "disgust"})
            /\ ret.val.service_score = pct({"happy", "surprise"})

-----------------------------------------------------------------------------
(* calc_staff_performance for one staff member who served up to MaxResolved *)
(* tables, each with one negative guest emotion                             *)

MaxResolved == 21

\* the emotion the staff member shows on every table
ServiceLabels == {"happy", "neutral", "angry"}

\* the store after tables 1..k each recorded a sad guest and then `shown` detections
\* of the staff member with the same label
RECURSIVE ServedTables(_, _, _)
ServedTables(k, label, shown) ==
    IF k = 0 THEN DataStoreInit
    ELSE CHOOSE next \in
            {IF shown = 1 THEN once
             ELSE add_detection(once, k, StaffId("Asha"), "staff", "Asha", label, 90,
                                [x |-> 0, y |-> 0, w |-> 50, h |-> 50]) :
             once \in {add_detection(guest, k, StaffId("Asha"), "staff", "Asha", label, 90,
                                     [x |-> 0, y |-> 0, w |-> 50, h |-> 50]) :
                       guest \in {add_detection(ds, k, GuestId(1), "guest", GuestName(1),
                                                "sad", 90,
                                                [x |-> 0, y |-> 0, w |-> 50, h |-> 50]) :
                                  ds \in {ServedTables(k - 1, label, shown)}}}} : TRUE

InitBonus ==
    /\ person_tracker = PersonTrackerInit
    /\ scene_detector = SceneDetectorInit
    /\ \E k \in 0..MaxResolved, label \in ServiceLabels, shown \in {1, 2} :
          data_store = ServedTables(k, label, shown)
    /\ anomaly_detector = AnomalyDetectorInit
    /\ current_table = 1
    /\ last_detections = <<>>
    /\ frame_count = 0
    /\ pc = "idle"
    /\ ret = Call("init", <<>>, <<>>, FALSE)
    /\ finalize_calls = <<>>
    /\ accepted = 0
    /\ discarded = {}
    /\ uploader = UploaderInit

CalcStaffPerformance ==
    /\ ret.op # "calc_staff_performance"
    /\ \E out \in {calc_staff_performance(data_store)} :
         /\ data_store' = out.data_store
         /\ ret' = Call("calc_staff_performance", <<>>, out.val, FALSE)
    /\ UNCHANGED anomaly_detector
    /\ StoreOnly

NextBonus == CalcStaffPerformance

SpecBonus == InitBonus /\ [][NextBonus]_vars

\* the emotion labels a staff member has in the ledger, in ledger order
StaffLabels(name) ==
    LET own == SelectSeq(data_store.snapshots,
                         LAMBDA s : s.person_type = "staff" /\ s.person_name = name)
    IN  [i \in 1..Len(own) |-> own[i].emotion]

PerformanceReturned == ret.op = "calc_staff_performance"

\* C23: every staff performance score lies in [0, 100] (scores are in tenths), and a
\* record whose base score (100 times the mean emotion weight) plus 5 per resolved
\* table reaches 100 or more has the score 100, however many tables were resolved.
C23_ScoreIsCappedAt100 ==
    PerformanceReturned =>
        \A i \in 1..Len(ret.val) :
            LET r == ret.val[i]
                labels == StaffLabels(r.name)
            IN  /\ r.score >= 0
                /\ r.score <= 1000
                /\ HundredthsSum(labels) + 5 * r.resolved_negative_trends * Len(labels)
                       >= 100 * Len(labels)
                     => r.score = 1000

\* C23 witness: a staff member with more than 20 resolved tables, whose base score of
\* 50 plus the bonuses exceeds 100, is reported with the score 100.
C23_Witness ==
    /\ PerformanceReturned
    /\ Len(ret.val) = 1
    /\ ret.val[1].resolved_negative_trends > 20
    /\ ret.val[1].dominant_emotion = "neutral"
    /\ ret.val[1].score = 1000

-----------------------------------------------------------------------------
(* calc_staff_performance after staff detections of several staff members *)

\* (staff name, emotion)
RankingDetections == {"Asha", "Ben", "Cara"} \X {"happy", "angry"}

StaffDetection ==
    /\ Len(data_store.snapshots) < MaxEvents
    /\ \E d \in RankingDetections :
         /\ data_store' = add_detection(data_store, 1, StaffId(d[1]), "staff", d[1], d[2], 90,
                                        [x |-> 0, y |-> 0, w |-> 50, h |-> 50])
         /\ ret' = Call("add_detection", <<1, StaffId(d[1]), "staff">>, <<>>, FALSE)
    /\ UNCHANGED anomaly_detector
    /\ StoreOnly

NextRanking == StaffDetection \/ CalcStaffPerformance

SpecRanking == Init /\ [][NextRanking]_vars

\* the staff names of the ledger, and the place of a name's first event in the ledger
LedgerStaff ==
    {data_store.snapshots[i].person_name :
        i \in {j \in 1..Len(data_store.snapshots) :
                  data_store.snapshots[j].person_type = "staff"}}

FirstRecorded(name) ==
    MinOf({i \in 1..Len(data_store.snapshots) :
              /\ data_store.snapshots[i].person_type = "staff"
              /\ data_store.snapshots[i].person_name = name})

\* C24: calc_staff_performance returns one record per staff member with at least one
\* recorded emotion, ordered by non-increasing score; records with equal score keep
\* the order in which the staff names were first recorded; the ranks are 1..N in list
\* order.
C24_PerformanceIsRankedByScore ==
    PerformanceReturned =>
        /\ {ret.val[i].name : i \in 1..Len(ret.val)} = LedgerStaff
        /\ Len(ret.val) = Cardinality(LedgerStaff)
        /\ \A i \in 1..Len(ret.val) : ret.val[i].rank = i
        /\ \A i, j \in 1..Len(ret.val) :
              i < j =>
                 /\ ret.val[i].score >= ret.val[j].score
                 /\ ret.val[i].score = ret.val[j].score
                       => FirstRecorded(ret.val[i].name) < FirstRecorded(ret.val[j].name)

\* C24 witness: Cara, Ben and Asha were recorded in this order; Ben and Asha share the
\* highest score and are ranked 1 and 2 in that order, Cara is ranked 3.
C24_Witness ==
    /\ PerformanceReturned
    /\ Len(ret.val) = 3
    /\ FirstRecorded("Cara") < FirstRecorded("Ben")
    /\ FirstRecorded("Ben") < FirstRecorded("Asha")
    /\ ret.val[1].name = "Ben" /\ ret.val[2].name = "Asha" /\ ret.val[3].name = "Cara"
    /\ ret.val[1].score = ret.val[2].score
    /\ ret.val[2].score > ret.val[3].score
    /\ ret.val[3].rank = 3

-----------------------------------------------------------------------------
(* export after any detections of a guest and a staff member on two tables *)

MaxRecorded == 4

\* (person_id, person_type, person_name, emotion)
ExportDetections ==
    {<<"guest_1", "guest", "Guest 1", "sad">>, <<"guest_1", "guest", "Guest 1", "happy">>,
     <<"staff_Asha", "staff", "Asha", "happy">>}

DetectionForExport ==
    /\ Len(data_store.snapshots) < MaxRecorded
    /\ \E t \in StoreTables, d \in ExportDetections :
         /\ data_store' = add_detection(data_store, t, d[1], d[2], d[3], d[4], 90,
                                        [x |-> 0, y |-> 0, w |-> 50, h |-> 50])
         /\ ret' = Call("add_detection", <<t, d[1], d[2]>>, <<>>, FALSE)
    /\ UNCHANGED anomaly_detector
    /\ StoreOnly

NextExport == DetectionForExport \/ Export

SpecExport == Init /\ [][NextExport]_vars

\* the values of an exported document that are computed by export
Derived(doc) ==
    <<doc.table_sentiments, doc.realtime_metrics, doc.staff_performance, doc.summary>>

\* C25: export changes no store state (ledger, tables, per-table data, staff history,
\* alerts, guest counter) and creates no per-table entry, and an export that follows
\* it with no event in between changes nothing either and returns equal sentiment,
\* metrics, staff performance and summary values.
C25_ExportIsReadOnly ==
    [][ret'.op = "export" =>
          /\ data_store' = data_store
          /\ \E again \in {export(data_store')} :
                /\ again.data_store = data_store'
                /\ Derived(again.val) = Derived(ret'.val)]_vars

\* C25 witness: an export of a store with detections on two tables, guests and a
\* scored staff member.
C25_Witness ==
    /\ ret.op = "export"
    /\ DOMAIN data_store.table_data = {1, 2}
    /\ data_store.total_guests = 2
    /\ Len(ret.val.staff_performance) = 1
    /\ ret.val.summary.total_snapshots = Len(data_store.snapshots)

\* the emotions of an exported ledger for one table and one person type, in order
LedgerEmotions(snapshots, t, type) ==
    LET own == SelectSeq(snapshots,
                         LAMBDA s : s.table_number = t /\ s.person_type = type)
    IN  [i \in 1..Len(own) |-> own[i].emotion]

SameSentiment(s, e) ==
    /\ s.dominant = e.dominant
    /\ s.trend = e.trend
    /\ s.avg_happiness = e.avg_happiness

\* C26: for every table of an exported document, _calc_sentiment of the table's guest
\* emotions and of its staff emotions, read from the exported ledger in ledger order,
\* has the dominant, trend and avg_happiness of the exported table_sentiments entry.
C26_SentimentIsFunctionOfLedger ==
    ret.op = "export" =>
        \A t \in DOMAIN ret.val.table_sentiments :
            /\ SameSentiment(_calc_sentiment(LedgerEmotions(ret.val.emotion_snapshots,
                                                            t, "guest")),
                             ret.val.table_sentiments[t].guest_sentiment)
            /\ SameSentiment(_calc_sentiment(LedgerEmotions(ret.val.emotion_snapshots,
                                                            t, "staff")),
                             ret.val.table_sentiments[t].staff_sentiment)

\* C26 witness: an exported table whose four guest emotions give an improving trend.
C26_Witness ==
    /\ ret.op = "export"
    /\ 1 \in DOMAIN ret.val.table_sentiments
    /\ LedgerEmotions(ret.val.emotion_snapshots, 1, "guest") = <<"sad", "sad", "happy", "happy">>
    /\ ret.val.table_sentiments[1].guest_sentiment.trend = "improving"
    /\ ret.val.table_sentiments[1].guest_sentiment.avg_happiness = 60

-----------------------------------------------------------------------------
(* The document that process_video returns *)

\* the tables of the ledger
TablesWithDetections ==
    {data_store.snapshots[i].table_number : i \in 1..Len(data_store.snapshots)}

\* C27: the document exported at the end of the session has a table_sentiments entry
\* for every table of its table list and for no other table number, also for a table
\* opened by a scene change in which no detection was recorded.
C27_SentimentKeysAreTheTables ==
    pc = "done" =>
        /\ {TwoDigits(t) : t \in DOMAIN ret.val.table_sentiments}
              = {table.table_number : table \in ret.val.tables}
        /\ Cardinality(DOMAIN ret.val.table_sentiments) = Cardinality(ret.val.tables)
        /\ DOMAIN ret.val.table_sentiments = DOMAIN data_store.tables

\* C27 witness: the session ended with a table that a scene change opened and that
\* has no detection; the document lists it and has its (empty) sentiment entry.
C27_Witness ==
    /\ pc = "done"
    /\ \E t \in DOMAIN ret.val.table_sentiments :
          /\ t > 1
          /\ t \notin TablesWithDetections
          /\ TablesWithDetections # {}
          /\ ret.val.table_sentiments[t].guest_count = 0
          /\ \E table \in ret.val.tables : table.table_number = TwoDigits(t)

-----------------------------------------------------------------------------
(* AnomalyDetector.check called with any arguments, between detections recorded *)
(* at low confidence                                                           *)

MaxAngry == 3

\* (person_id, person_type, person_name, emotion), recorded on table 1 at confidence 0.55
RuleDetections ==
    {<<"guest_1", "guest", "Guest 1", "neutral">>, <<"staff_Asha", "staff", "Asha", "angry">>}

RecordAtThreshold ==
    /\ Len(data_store.snapshots) < MaxEvents
    /\ \E d \in RuleDetections :
         /\ data_store' = add_detection(data_store, 1, d[1], d[2], d[3], d[4],
                                        ANOMALY_CONFIDENCE,
                                        [x |-> 0, y |-> 0, w |-> 50, h |-> 50])
         /\ ret' = Call("add_detection", <<1, d[2], d[4], ANOMALY_CONFIDENCE>>, <<>>, FALSE)
    /\ UNCHANGED anomaly_detector
    /\ StoreOnly

\* check(table_num, person_type, emotion, confidence)
CheckCall ==
    /\ \E t \in StoreTables, ptype \in {"guest", "staff"}, e \in CheckEmotions,
          c \in CheckConfidences :
         /\ CountsAsAnger(e, c) => AngerTotal < MaxAngry
         /\ \E out \in {check(anomaly_detector, data_store, t, ptype, e, c)} :
               /\ anomaly_detector' = out.anomaly_detector
               /\ data_store' = out.data_store
               /\ ret' = Call("check", <<t, ptype, e, c>>, out.alert, FALSE)
    /\ StoreOnly

NextRules == RecordAtThreshold \/ CheckCall

SpecRules == Init /\ [][NextRules]_vars

\* the alerts a step appended, as (table number, alert type) pairs
Created == {<<data_store'.alerts[i].table_number, data_store'.alerts[i].alert_type>> :
               i \in (Len(alerts) + 1)..Len(data_store'.alerts)}

AngerAfter(t) ==
    IF t \in DOMAIN anomaly_detector'.table_anger THEN anomaly_detector'.table_anger[t]
    ELSE NoAnger

\* C28: a check call adds exactly 1 to the angry counter of its table and person type
\* iff the emotion is 'angry' and the confidence is strictly greater than 0.55, and
\* changes no other counter; the rules of the same call see the new value (the
\* staff-customer key is fired as soon as both counters of the table are at least 1);
\* no step decreases a counter.
C28_AngerCounterCountsAboveThreshold ==
    [][/\ \A t \in StoreTables, type \in {"guest", "staff"} :
             AngerAfter(t)[type] >= AngerOf(t)[type]
       /\ ret'.op = "check" =>
             /\ \A t \in StoreTables, type \in {"guest", "staff"} :
                   AngerAfter(t)[type] =
                      AngerOf(t)[type]
                        + (IF /\ t = ret'.args[1] /\ type = ret'.args[2]
                              /\ ret'.args[3] = "angry" /\ ret'.args[4] > ANOMALY_CONFIDENCE
                           THEN 1 ELSE 0)
             /\ (AngerAfter(ret'.args[1]).guest >= 1 /\ AngerAfter(ret'.args[1]).staff >= 1)
                   => DisputeStaffKey(ret'.args[1]) \in anomaly_detector'.alerted]_vars

\* C28 witness: after one counted angry guest event on table 1, an angry guest event
\* at exactly 0.55 was checked on that table and the counter is still 1.
C28_Witness ==
    /\ ret.op = "check"
    /\ ret.args = <<1, "guest", "angry", ANOMALY_CONFIDENCE>>
    /\ AngerOf(1) = [guest |-> 1, staff |-> 0]
    /\ AngerOf(2) = NoAnger

\* C29: no check call creates both a staff-customer dispute alert and a guest-guest
\* dispute alert: a call that fires the staff-customer rule neither creates the
\* guest-guest alert nor fires its key.
C29_DisputeRulesAreExclusive ==
    [][ret'.op = "check" =>
          \A t \in StoreTables :
              <<t, "dispute_staff_customer">> \in Created
                 => /\ <<t, "dispute_customers">> \notin Created
                    /\ (DisputeGuestKey(t) \in anomaly_detector'.alerted
                           => DisputeGuestKey(t) \in anomaly_detector.alerted)]_vars

\* C29 witness: the call that made the staff counter of table 1 positive returned the
\* staff-customer alert while the guest counter of the table was 2.
C29_Witness ==
    /\ ret.op = "check"
    /\ ret.args = <<1, "staff", "angry", 90>>
    /\ AngerOf(1) = [guest |-> 2, staff |-> 1]
    /\ ret.val = Some(DisputeAlert(1))
    /\ AlertsOf(alerts, 1, "dispute_staff_customer") = {Len(alerts)}

\* how many events of the ledger on table t, of one person type, have an emotion in S
LedgerCount(t, type, S) ==
    Cardinality({i \in 1..Len(data_store.snapshots) :
                    /\ data_store.snapshots[i].table_number = t
                    /\ data_store.snapshots[i].person_type = type
                    /\ data_store.snapshots[i].emotion \in S})

\* C30: a check call on table t creates the service-dissatisfaction alert iff its key
\* has not fired and the table's recorded history holds at least 2 guest emotions in
\* {angry, sad, neutral} and at least 1 staff emotion in {angry, sad}, whatever the
\* confidence of the recorded events, the angry counters, and whether a dispute rule
\* fired on the call.
C30_ServiceAlertFromRecordedHistory ==
    [][ret'.op = "check" =>
          (<<ret'.args[1], "service_dissatisfaction">> \in Created
             <=> /\ ServiceKey(ret'.args[1]) \notin anomaly_detector.alerted
                 /\ LedgerCount(ret'.args[1], "guest", {"angry", "sad", "neutral"}) >= 2
                 /\ LedgerCount(ret'.args[1], "staff", {"angry", "sad"}) >= 1)]_vars

\* C30 witness: all recorded events have confidence 0.55; the call that made the staff
\* counter of table 1 positive created the staff-customer alert and then the service
\* alert, which it returned.
C30_Witness ==
    /\ ret.op = "check"
    /\ ret.args = <<1, "staff", "angry", 90>>
    /\ AngerOf(1) = [guest |-> 1, staff |-> 1]
    /\ \A i \in 1..Len(data_store.snapshots) :
          data_store.snapshots[i].confidence = ANOMALY_CONFIDENCE
    /\ Len(alerts) = 2
    /\ alerts[1].alert_type = "dispute_staff_customer"
    /\ alerts[2].alert_type = "service_dissatisfaction"
    /\ ret.val = Some(alerts[2])

-----------------------------------------------------------------------------
(* calc_staff_performance after detections of a dissatisfied guest and of two *)
(* staff members on two tables                                                *)

\* (table_num, person_id, person_type, person_name, emotion)
ResolvingDetections ==
    {<<1, "guest_1", "guest", "Guest 1", "sad">>,
     <<1, "staff_Asha", "staff", "Asha", "happy">>,
     <<1, "staff_Asha", "staff", "Asha", "angry">>,
     <<1, "staff_Ben", "staff", "Ben", "neutral">>,
     <<2, "guest_1", "guest", "Guest 1", "disgust">>,
     <<2, "staff_Asha", "staff", "Asha", "happy">>}

DetectionToResolve ==
    /\ Len(data_store.snapshots) < MaxRecorded
    /\ \E d \in ResolvingDetections :
         /\ data_store' = add_detection(data_store, d[1], d[2], d[3], d[4], d[5], 90,
                                        [x |-> 0, y |-> 0, w |-> 50, h |-> 50])
         /\ ret' = Call("add_detection", <<d[1]>>, <<>>, FALSE)
    /\ UNCHANGED anomaly_detector
    /\ StoreOnly

NextResolved == DetectionToResolve \/ CalcStaffPerformance

SpecResolved == Init /\ [][NextResolved]_vars

\* how many ledger events on table t are of staff member `name` with an emotion in S
StaffLedgerCount(t, name, S) ==
    Cardinality({i \in 1..Len(data_store.snapshots) :
                    /\ data_store.snapshots[i].table_number = t
                    /\ data_store.snapshots[i].person_type = "staff"
                    /\ data_store.snapshots[i].person_name = name
                    /\ data_store.snapshots[i].emotion \in S})

\* the tables of the ledger on which guests were negative and the member was positive
\* more often than that
ResolvedBy(name) ==
    {t \in {data_store.snapshots[i].table_number : i \in 1..Len(data_store.snapshots)} :
        /\ LedgerCount(t, "guest", {"angry", "sad", "disgust"}) >= 1
        /\ StaffLedgerCount(t, name, {"happy", "neutral"})
              > LedgerCount(t, "guest", {"angry", "sad", "disgust"})}

\* C31: in the returned performance list, a member's resolved_negative_trends is the
\* number of tables with at least one guest emotion in {angry, sad, disgust} on which
\* the member's count of {happy, neutral} emotions is strictly greater than the
\* table's count of those guest emotions, and it never exceeds tables_served.
C31_ResolvedCountsTablesWonOver ==
    PerformanceReturned =>
        \A i \in 1..Len(ret.val) :
            /\ ret.val[i].resolved_negative_trends = Cardinality(ResolvedBy(ret.val[i].name))
            /\ ret.val[i].resolved_negative_trends <= ret.val[i].tables_served

\* C31 witness: Asha served two tables; she resolved table 1 (two happy against one
\* sad guest emotion) and not table 2, where no guest was negative.
C31_Witness ==
    /\ PerformanceReturned
    /\ Len(ret.val) = 1
    /\ ret.val[1].name = "Asha"
    /\ ret.val[1].tables_served = 2
    /\ ret.val[1].resolved_negative_trends = 1
    /\ LedgerCount(1, "guest", {"sad"}) = 1
    /\ StaffLedgerCount(1, "Asha", {"happy"}) = 2
    /\ StaffLedgerCount(2, "Asha", {"happy"}) = 1

-----------------------------------------------------------------------------
(* The detections process_frame handles: each is recorded by add_detection and *)
(* then checked with the same table, person type, emotion and confidence       *)
(* (lines 650-672)                                                             *)

\* (person_id, person_type, person_name)
HandledPersons ==
    {<<"guest_1", "guest", "Guest 1">>, <<"staff_Asha", "staff", "Asha">>}

HandleDetection ==
    /\ Len(data_store.snapshots) < MaxEvents
    /\ \E t \in StoreTables, p \in HandledPersons, e \in CheckEmotions,
          c \in CheckConfidences :
         \E out \in {check(anomaly_detector,
                           add_detection(data_store, t, p[1], p[2], p[3], e, c,
                                         [x |-> 0, y |-> 0, w |-> 50, h |-> 50]),
                           t, p[2], e, c)} :
            /\ anomaly_detector' = out.anomaly_detector
            /\ data_store' = out.data_store
            /\ ret' = Call("check", <<t, p[2], e, c>>, out.alert, FALSE)
    /\ StoreOnly

NextHandled == HandleDetection

SpecHandled == Init /\ [][NextHandled]_vars

\* C32: no missed alert: after every detection that is recorded and then checked, on
\* every table a guest and a staff angry counter of at least 1 imply that the
\* staff-customer key has fired, a guest angry counter of at least 2 implies that the
\* guest-guest key has fired, and a history of at least 2 guest emotions in {angry,
\* sad, neutral} and 1 staff emotion in {angry, sad} implies that the service key has
\* fired.
C32_NoMissedAlert ==
    \A t \in StoreTables :
        /\ (AngerOf(t).guest >= 1 /\ AngerOf(t).staff >= 1)
              => DisputeStaffKey(t) \in anomaly_detector.alerted
        /\ AngerOf(t).guest >= 2 => DisputeGuestKey(t) \in anomaly_detector.alerted
        /\ (/\ CountIn(TableDataOf(t).guest_emotions, {"angry", "sad", "neutral"}) >= 2
            /\ CountIn(TableDataOf(t).staff_emotions, {"angry", "sad"}) >= 1)
              => ServiceKey(t) \in anomaly_detector.alerted

\* C32 witness: two angry guest events and then an angry staff event on table 1 make
\* all three conditions hold there; all three keys have fired, the staff-customer key
\* on the last call, after the guest-guest key.
C32_Witness ==
    /\ ret.op = "check"
    /\ ret.args = <<1, "staff", "angry", 90>>
    /\ AngerOf(1) = [guest |-> 2, staff |-> 1]
    /\ CountIn(TableDataOf(1).guest_emotions, {"angry"}) = 2
    /\ Len(alerts) = 3
    /\ alerts[1].alert_type = "dispute_customers"
    /\ alerts[2].alert_type = "dispute_staff_customer"
    /\ alerts[3].alert_type = "service_dissatisfaction"
    /\ anomaly_detector.alerted = {DisputeStaffKey(1), DisputeGuestKey(1), ServiceKey(1)}

-----------------------------------------------------------------------------
(* The tables a check call leaves alone, under SpecRules *)

KeysOf(t) == {DisputeStaffKey(t), DisputeGuestKey(t), ServiceKey(t)}

\* C33: a check call for table t changes no angry counter and no dedup key of another
\* table, keeps every earlier alert and creates alerts for table t only; it creates
\* the staff-customer alert only when both angry counters of table t itself are at
\* least 1, so anger on two different tables never combines.
C33_CheckTouchesOneTable ==
    [][ret'.op = "check" =>
          /\ \A u \in StoreTables \ {ret'.args[1]} :
                /\ AngerAfter(u) = AngerOf(u)
                /\ anomaly_detector'.alerted \cap KeysOf(u)
                      = anomaly_detector.alerted \cap KeysOf(u)
          /\ anomaly_detector'.alerted \subseteq UNION {KeysOf(u) : u \in StoreTables}
          /\ IsPrefix(alerts, data_store'.alerts)
          /\ \A a \in Created : a[1] = ret'.args[1]
          /\ <<ret'.args[1], "dispute_staff_customer">> \in Created
                => /\ AngerAfter(ret'.args[1]).guest >= 1
                   /\ AngerAfter(ret'.args[1]).staff >= 1]_vars

\* C33 witness: an angry guest was counted on table 1 and an angry staff member on
\* table 2, by the last call; no alert exists and no key has fired.
C33_Witness ==
    /\ ret.op = "check"
    /\ ret.args = <<2, "staff", "angry", 90>>
    /\ AngerOf(1) = [guest |-> 1, staff |-> 0]
    /\ AngerOf(2) = [guest |-> 0, staff |-> 1]
    /\ alerts = <<>>
    /\ anomaly_detector.alerted = {}

-----------------------------------------------------------------------------
(* The table map and the ledger during the session, under Spec *)

\* C34: while process_video runs its loop, after every frame the keys of the table
\* map are exactly 1..current_table, every table below current_table has an end_time,
\* the current table has none, and the detector's current_table is the scene
\* detector's.
C34_TablesFollowTheScene ==
    pc = "loop" =>
        /\ DOMAIN data_store.tables = 1..current_table
        /\ \A t \in 1..(current_table - 1) : data_store.tables[t].end_time # NoTime
        /\ data_store.tables[current_table].end_time = NoTime
        /\ current_table = scene_detector.current_table

\* C34 witness: a frame changed the scene; table 1 is closed and table 2 is open.
C34_Witness ==
    /\ pc = "loop"
    /\ ret.op = "process_frame"
    /\ current_table = 2
    /\ DOMAIN data_store.tables = {1, 2}
    /\ data_store.tables[1].end_time = Now
    /\ data_store.tables[2].end_time = NoTime

\* C35: the table numbers of the ledger's events are non-decreasing in ledger order
\* and every event is on a table that is not finalized before the session ends, so
\* the guests and staff written at finalize_table are the table's guests and staff in
\* table_data from then on, at the export too.
C35_NoDetectionAfterFinalize ==
    /\ \A i \in 1..Len(data_store.snapshots) : \A j \in i..Len(data_store.snapshots) :
          data_store.snapshots[i].table_number <= data_store.snapshots[j].table_number
    /\ \A t \in DOMAIN data_store.tables :
          data_store.tables[t].end_time # NoTime =>
             /\ data_store.tables[t].guests = Some(TableDataOf(t).guests)
             /\ data_store.tables[t].staff = Some(TableDataOf(t).staff)
    /\ pc = "done" =>
          \A tbl \in ret.val.tables :
             \E t \in DOMAIN data_store.tables :
                /\ tbl = data_store.tables[t]
                /\ tbl.guests = Some(TableDataOf(t).guests)
                /\ tbl.staff = Some(TableDataOf(t).staff)

\* C35 witness: the session ended with detections on table 1 and then on table 2;
\* table 1 was finalized with the guest it had.
C35_Witness ==
    /\ pc = "done"
    /\ Len(data_store.snapshots) >= 2
    /\ data_store.snapshots[1].table_number = 1
    /\ data_store.snapshots[Len(data_store.snapshots)].table_number = 2
    /\ data_store.tables[1].guests = Some({GuestId(1)})
    /\ data_store.tables[2].end_time = Now

-----------------------------------------------------------------------------
(* DataStore.add_detection called directly, with two guests and two staff members *)
(* showing different emotions                                                    *)

\* (person_id, person_type, person_name, emotion)
HistoryDetections ==
    {<<"guest_1", "guest", "Guest 1", "sad">>, <<"guest_2", "guest", "Guest 2", "happy">>,
     <<"staff_Asha", "staff", "Asha", "happy">>, <<"staff_Ben", "staff", "Ben", "angry">>}

HistoryDetection ==
    /\ Len(data_store.snapshots) < MaxRecorded
    /\ \E t \in StoreTables, d \in HistoryDetections :
         /\ data_store' = add_detection(data_store, t, d[1], d[2], d[3], d[4], 90,
                                        [x |-> 0, y |-> 0, w |-> 50, h |-> 50])
         /\ ret' = Call("add_detection", <<t, d[1], d[2]>>, <<>>, FALSE)
    /\ UNCHANGED anomaly_detector
    /\ StoreOnly

NextHistory == HistoryDetection

SpecHistory == Init /\ [][NextHistory]_vars

\* C36: after any sequence of add_detection calls the ledger length is the sum over
\* the tables of the lengths of the guest and staff emotion histories, each table's
\* guest and staff history is the sequence of the emotions of its guest and staff
\* ledger events in ledger order, and the per-staff histories together are as long as
\* the tables' staff histories together.
C36_AggregatesMatchTheLedger ==
    /\ Len(data_store.snapshots) =
          SumOver([t \in DOMAIN data_store.table_data |->
                      Len(data_store.table_data[t].guest_emotions)
                        + Len(data_store.table_data[t].staff_emotions)],
                  DOMAIN data_store.table_data)
    /\ \A t \in StoreTables :
          /\ TableDataOf(t).guest_emotions = LedgerEmotions(data_store.snapshots, t, "guest")
          /\ TableDataOf(t).staff_emotions = LedgerEmotions(data_store.snapshots, t, "staff")
    /\ SumOver([name \in DOMAIN data_store.staff_emotions |->
                   Len(data_store.staff_emotions[name])],
               DOMAIN data_store.staff_emotions)
          = SumOver([t \in DOMAIN data_store.table_data |->
                        Len(data_store.table_data[t].staff_emotions)],
                    DOMAIN data_store.table_data)

\* C36 witness: four events on two tables, two of them of the same staff member on
\* table 1 around an event of the other staff member.
C36_Witness ==
    /\ Len(data_store.snapshots) = 4
    /\ TableDataOf(1).staff_emotions = <<"happy", "angry", "happy">>
    /\ TableDataOf(2).guest_emotions = <<"sad">>
    /\ Len(data_store.staff_emotions["Asha"]) = 2
    /\ Len(data_store.staff_emotions["Ben"]) = 1

-----------------------------------------------------------------------------
(* The guest ids of one guest-pool epoch, under SpecTracker *)

TrackedGuests == {i \in 1..Len(persons) : persons[i].type = "guest"}

\* C37: between two resets the tracked guests are exactly guest_1..guest_n, n the
\* guest counter: there are n of them, no two tracked persons share an id, and a
\* call that mints a guest advances the counter by 1 and returns the id with the new
\* counter as its suffix, greater than every suffix issued since the last reset.
C37_GuestIdsAreOneToCounter ==
    /\ [](/\ Cardinality(TrackedGuests) = person_tracker.guest_counter
          /\ {persons[i].pid : i \in TrackedGuests} = CurrentGuestIds
          /\ \A i, j \in 1..Len(persons) : persons[i].pid = persons[j].pid => i = j)
    /\ [][(/\ ret'.op = "get_or_create"
           /\ Len(person_tracker'.persons) > Len(persons)
           /\ ret'.val[2] = "guest")
             => /\ person_tracker'.guest_counter = person_tracker.guest_counter + 1
                /\ ret'.val[1] = GuestId(person_tracker'.guest_counter)
                /\ ret'.val[1] \notin CurrentGuestIds
                /\ \A k \in 1..person_tracker.guest_counter :
                      k < person_tracker'.guest_counter]_vars

\* C37 witness: in the epoch after a reset that dropped guests, a second guest was
\* minted as guest_2 while guest_1 is tracked.
C37_Witness ==
    /\ discarded # {}
    /\ ret.op = "get_or_create"
    /\ ret.val[1] = GuestId(2)
    /\ person_tracker.guest_counter = 2
    /\ persons[Len(persons)].pid = GuestId(2)
    /\ Cardinality(TrackedGuests) = 2

-----------------------------------------------------------------------------
(* upload_session given the document export returns, and upload_from_file given *)
(* the file report() writes from it                                            *)

UploaderSteps == UNCHANGED <<person_tracker, scene_detector, anomaly_detector, current_table,
                             last_detections, frame_count, pc, finalize_calls, accepted,
                             discarded>>

\* upload_session(data), data the dict export returned: its table dicts are the dicts
\* of the store's table map, which the merges of lines 387-390 change
UploadSession ==
    /\ uploader.pc = "idle"
    /\ \E out \in {export(data_store)} :
         \E data \in {InMemory(out.val)} :
            \E up \in {upload_session(uploader, data)} :
               /\ uploader' = up.uploader
               /\ data_store' =
                     [out.data_store EXCEPT !.tables =
                         [t \in DOMAIN out.data_store.tables |->
                             Merged(out.data_store.tables[t], data.table_sentiments)]]
               /\ ret' = Call("upload_session", <<data>>, up.val, FALSE)
    /\ UploaderSteps
    /\ UNCHANGED anomaly_detector

\* report() writes the exported document to output_data.json (emotion_detector.py
\* lines 783, 826-828) and upload_from_file(filepath) loads it and uploads it
UploadFromFile ==
    /\ uploader.pc = "idle"
    /\ \E out \in {export(data_store)} :
         \E data \in {JsonLoaded(out.val)} :
            \E up \in {upload_session(uploader, data)} :
               /\ uploader' = up.uploader
               /\ data_store' = out.data_store
               /\ ret' = Call("upload_from_file", <<data>>, up.val, FALSE)
    /\ UploaderSteps
    /\ UNCHANGED anomaly_detector

NextUpload == DetectionForExport \/ UploadSession \/ UploadFromFile

SpecUpload == Init /\ [][NextUpload]_vars

\* the keys of a table_sentiments dict that stand for table number n, as an int or as
\* its text
EntriesFor(table_sentiments, n) ==
    {k \in DOMAIN table_sentiments : k[2] = ToString(n)}

\* C38 (as claimed): upload_session attaches the guest and staff sentiment to every
\* uploaded table that has an entry in table_sentiments for its table number, given
\* the in-memory export and given the export re-loaded from the JSON file.
C38_SentimentsAttachedFromMemoryAndFile ==
    ret.op \in {"upload_session", "upload_from_file"} =>
        \A table \in ret.args[1].tables :
            \A k \in EntriesFor(ret.args[1].table_sentiments, TableNumOf(table)) :
                /\ uploader.tables[TableDocId(table)].guest_sentiment
                      = ret.args[1].table_sentiments[k].guest_sentiment
                /\ uploader.tables[TableDocId(table)].staff_sentiment
                      = ret.args[1].table_sentiments[k].staff_sentiment

\* the in-memory half of C38, which holds: the sentiments of the export are attached
\* to every table uploaded by upload_session
C38_SentimentsAttachedFromMemory ==
    ret.op = "upload_session" =>
        \A table \in ret.args[1].tables :
            \A k \in EntriesFor(ret.args[1].table_sentiments, TableNumOf(table)) :
                /\ uploader.tables[TableDocId(table)].guest_sentiment
                      = ret.args[1].table_sentiments[k].guest_sentiment
                /\ uploader.tables[TableDocId(table)].staff_sentiment
                      = ret.args[1].table_sentiments[k].staff_sentiment

\* a table uploaded from the file with the default sentiment although the file has the
\* table's sentiment
C38_FileLosesSentiment ==
    /\ ret.op = "upload_from_file"
    /\ PyStr("1") \in DOMAIN ret.args[1].table_sentiments
    /\ ret.args[1].table_sentiments[PyStr("1")].guest_sentiment.dominant = "sad"
    /\ uploader.tables["table_01"].guest_sentiment = DefaultGuestSentiment

-----------------------------------------------------------------------------
(* upload_snapshots_batch, one iteration of its loop at a time, on an input of *)
(* any length up to MaxSnapshots; snapshot i of the input is written as i      *)

MaxSnapshots == 1001

\* lines 230-231: batch = self.db.batch(), count = 0
StartBatch ==
    /\ uploader.pc = "idle"
    /\ uploader' = [uploader EXCEPT !.pc = "loop", !.batch = <<>>, !.count = 0]
    /\ ret' = Call("upload_snapshots_batch", <<>>, <<>>, FALSE)
    /\ UploaderSteps
    /\ UNCHANGED <<data_store, anomaly_detector>>

\* lines 233-255: the input has a next snapshot
NextSnapshot ==
    /\ uploader.pc = "loop"
    /\ uploader.count < MaxSnapshots
    /\ uploader' = BatchStep(uploader, uploader.count + 1)
    /\ UNCHANGED ret
    /\ UploaderSteps
    /\ UNCHANGED <<data_store, anomaly_detector>>

\* lines 257-261: the input is exhausted; args holds its length
ReturnCount ==
    /\ uploader.pc = "loop"
    /\ uploader' = [BatchEnd(uploader) EXCEPT !.pc = "returned"]
    /\ ret' = Call("upload_snapshots_batch", <<uploader.count>>, uploader.count, FALSE)
    /\ UploaderSteps
    /\ UNCHANGED <<data_store, anomaly_detector>>

NextBatch == StartBatch \/ NextSnapshot \/ ReturnCount

SpecBatch == Init /\ [][NextBatch]_vars

\* the writes of the committed batches, in commit order
RECURSIVE WritesTo(_, _)
WritesTo(committed, k) ==
    IF k = 0 THEN <<>> ELSE WritesTo(committed, k - 1) \o committed[k]

\* C39: no committed batch is empty or holds more than 500 writes, and when
\* upload_snapshots_batch has returned, the committed batches hold every input
\* snapshot exactly once, no write is left in an open batch, and the returned count
\* is the input length.
C39_EverySnapshotCommittedOnce ==
    /\ \A k \in 1..Len(uploader.committed) :
          Len(uploader.committed[k]) \in 1..BatchLimit
    /\ uploader.pc = "returned" =>
          /\ WritesTo(uploader.committed, Len(uploader.committed))
                = [i \in 1..ret.args[1] |-> i]
          /\ uploader.batch = <<>>
          /\ ret.val = ret.args[1]

\* C39 witness: an input of 1000 snapshots was committed as two batches of 500, with
\* no third commit.
C39_Witness ==
    /\ uploader.pc = "returned"
    /\ ret.args[1] = 2 * BatchLimit
    /\ Len(uploader.committed) = 2
    /\ Len(uploader.committed[1]) = BatchLimit
    /\ Len(uploader.committed[2]) = BatchLimit


-----------------------------------------------------------------------------
(* analyze_alerts_batch over every outcome of the AI call, alert by alert *)

MaxAlerts == 3

\* what the text of a response can be
JsonObject(fields) == [type |-> "dict", fields |-> fields]
Insights(score) ==
    JsonObject([f \in {"root_cause", "ai_recommendation", "urgency_score"} |->
                   IF f = "root_cause" THEN PyText("Repeated anger at the table")
                   ELSE IF f = "ai_recommendation" THEN PyText("Send the manager")
                   ELSE score])
TextOutcome(text, body) == [kind |-> "text", text |-> text, body |-> body]

Outcomes ==
    {[kind |-> "raise", text |-> "", body |-> None],
     TextOutcome("", None),
     TextOutcome("I cannot assess this.", None),
     TextOutcome("[1, 2]", <<[type |-> "list"]>>),
     TextOutcome("{}", <<JsonObject(<<>>)>>),
     TextOutcome("{score 7}", <<Insights(PyNumber(7))>>),
     TextOutcome("(fence)json {score 15} (fence)", <<Insights(PyNumber(15))>>),
     TextOutcome("{score -3}", <<Insights(PyNumber(-3))>>),
     TextOutcome("{score 7.9}", <<Insights(PyFloat(79))>>),
     TextOutcome("{score '7'}", <<Insights(PyText("7"))>>),
     TextOutcome("{score 'high'}", <<Insights(PyText("high"))>>),
     TextOutcome("{score null}", <<Insights(PyNone)>>)}

\* the alerts of a session, as the rules create them
SessionAlert(i) ==
    IF i % 2 = 1 THEN Alert(i, "dispute_staff_customer", "urgent", "Staff-Customer Dispute")
    ELSE Alert(i, "service_dissatisfaction", "warning", "Service Issue")

\* upload_session lines 404-411: the session's alerts are analysed once
AnalyzeAlertsBatch ==
    /\ ret.op = "init"
    /\ \E n \in 0..MaxAlerts : \E outcomes \in [1..n -> Outcomes] :
         LET input == [i \in 1..n |-> SessionAlert(i)]
         IN  \E out \in {analyze_alerts_batch(input, outcomes)} :
               ret' = Call("analyze_alerts_batch", <<input, outcomes>>, out.val,
                           out.raised # "")
    /\ UploaderSteps
    /\ UNCHANGED <<data_store, uploader>>

SpecAnalyze == Init /\ [][AnalyzeAlertsBatch]_vars

\* C40: analyze_alerts_batch returns the input alerts in the same order and number,
\* each with its own fields unchanged and with root_cause, ai_recommendation and an
\* integer urgency_score in 1..10, whatever the AI call does for each alert; no
\* outcome of one alert makes the call raise, so the later alerts are analysed too.
C40_EveryAlertAnalysed ==
    ret.op = "analyze_alerts_batch" =>
        LET input == ret.args[1]
            analyzed_alerts == ret.val
        IN  /\ ~ret.raised
            /\ Len(analyzed_alerts) = Len(input)
            /\ \A i \in 1..Len(input) :
                 /\ DOMAIN analyzed_alerts[i] =
                        DOMAIN input[i] \cup {"root_cause", "ai_recommendation", "urgency_score"}
                 /\ \A f \in DOMAIN input[i] : analyzed_alerts[i][f] = input[i][f]
                 /\ analyzed_alerts[i].urgency_score \in 1..10

\* the first alert's call raised, the second answered null for the score, and the
\* third alert still got the score of its own answer, 15 brought down to 10
C40_Witness ==
    /\ ret.op = "analyze_alerts_batch"
    /\ Len(ret.args[1]) = 3
    /\ ret.args[2][1].kind = "raise"
    /\ ret.args[2][2] = TextOutcome("{score null}", <<Insights(PyNone)>>)
    /\ ret.args[2][3] = TextOutcome("(fence)json {score 15} (fence)", <<Insights(PyNumber(15))>>)
    /\ ~ret.raised
    /\ ret.val[1].urgency_score = 5
    /\ ret.val[2].root_cause = PyText("Unable to analyze - API error")
    /\ ret.val[3].urgency_score = 10
    /\ ret.val[3].root_cause = PyText("Repeated anger at the table")
    /\ ret.val[3].table_number = 3

====
